---- MODULE Spec2Model ----
(***************************************************************************)
(* Layouts of the reactive UI runtime.                                     *)
(*                                                                         *)
(*   "sem"  : src/src/py/idom/layout.py  (render guarded by a flag and a   *)
(*            semaphore, one pass renders the whole update queue)          *)
(*   "core" : src/idom/core/layout.py    (one _render task per update(),   *)
(*            results delivered through a FutureQueue)                     *)
(*                                                                         *)
(* Element ids are the integers of Elems, None is 0.  What an element's    *)
(* render() returns is application code: each render draws a model from    *)
(* Models(e), or raises.  A model is kept as the elements found by the     *)
(* walk of _render_model, in visiting order, and the event handlers found  *)
(* by _load_model (in the node and its nested mapping children).           *)
(***************************************************************************)
EXTENDS Integers, Sequences, FiniteSets, TLC

\* ------------------------------------------------------------------ bounds
MaxQueue == 2        \* elements waiting in the sem layout's _update_queue
MaxAnimate == 1      \* callbacks waiting in the sem layout's _animate_queue
MaxValue == 2        \* the values of a use_state state are 0..MaxValue
MaxEffects == 2      \* effects waiting in one list of a hook's _event_effects
MaxFutures == 2      \* asyncio tasks the effects of one element create
MaxPuts == 2         \* awaitables put in one FutureQueue
MaxGets == 3         \* calls of get() on one FutureQueue

\* The applications the layouts are run with: the elements (the root and
\* the elements it can render below it), the event handlers of their models,
\* and, for the core layout, how many futures the application lets update()
\* make before render() has returned them, and whether a model of its
\* elements can list one child element twice.
Root == 1
None == 0
SemApps == {[elems |-> {1, 2}, handlers |-> {1}, tasks |-> 0]}
CoreApps == {[elems |-> {1, 2}, handlers |-> {1, 2}, tasks |-> 2, twice |-> FALSE],
             [elems |-> {1, 2, 3}, handlers |-> {1, 2}, tasks |-> 1, twice |-> FALSE],
             [elems |-> {1, 2, 3}, handlers |-> {}, tasks |-> 1, twice |-> TRUE]}
Callers == {1, 2}

VARIABLES
    layout,              \* which Layout class was constructed: "sem" | "core"
    app,                 \* the application it renders
    s_state,             \* sem: Layout._state
    s_update_queue,      \* sem: Layout._update_queue
    s_render_semaphore,  \* sem: value of Layout._render_semaphore
    s_animate_queue,     \* sem: number of callbacks in Layout._animate_queue
    s_rendering,         \* sem: Layout._rendering
    s_call,              \* sem: the render() call of each caller
    c_element_state,     \* core: Layout._element_state
    c_event_handlers,    \* core: Layout._event_handlers
    c_mounted,           \* core: the elements whose last life cycle call was mount
    c_tasks,             \* core: the _render tasks update() has created, oldest first
    c_queue,             \* core: FutureQueue._queue, the finished tasks
    trig,                \* the apply() / trigger() call in flight
    h_hook,              \* hooks: the fields of the element's LifeCycleHook
    h_objs,              \* hooks: the attribute current of each _State object
    h_current,           \* hooks: _current_life_cycle_hook
    h_futures,           \* hooks: the asyncio tasks the effects have created
    h_caches,            \* hooks: the contents of the dicts of use_memo
    h_render,            \* hooks: the render of the element in progress
    h_log,               \* hooks: what has been observed of the hook
    m_loaded,            \* load: what _load_model has returned for the model
    q_futures,           \* queue: the futures FutureQueue.put has made, in order
    q_queue,             \* queue: FutureQueue._queue
    q_calls,             \* queue: the get() call of each caller
    q_log,               \* queue: the awaitables in the order they completed
    x_renders            \* contexts: the render of each execution context

semvars == <<s_state, s_update_queue, s_render_semaphore, s_animate_queue,
             s_rendering, s_call>>
corevars == <<c_element_state, c_event_handlers, c_mounted, c_tasks, c_queue>>
hookvars == <<h_hook, h_objs, h_current, h_futures, h_caches, h_render, h_log>>
auxvars == <<m_loaded, q_futures, q_queue, q_calls, q_log, x_renders>>
vars == <<layout, app, semvars, corevars, trig, hookvars, auxvars>>

\* ----------------------------------------------------------------- helpers
Put(f, k, v) == [x \in DOMAIN f \cup {k} |-> IF x = k THEN v ELSE f[x]]
Drop(f, k) == [x \in DOMAIN f \ {k} |-> f[x]]
Range(s) == {s[i] : i \in DOMAIN s}
Empty == [x \in {} |-> 0]

Min(S) == CHOOSE x \in S : \A y \in S : x <= y
Max(S) == CHOOSE x \in S : \A y \in S : x >= y

\* The iteration order of a Python set is not fixed by the language: rev picks
\* one of the two orders a set of at most two ids can be iterated in.
RECURSIVE SetToSeq(_, _)
SetToSeq(S, rev) ==
    IF S = {} THEN <<>>
    ELSE LET x == IF rev THEN Max(S) ELSE Min(S)
         IN  <<x>> \o SetToSeq(S \ {x}, rev)

\* What element.render() may return: the elements below e that the walk
\* finds (the tree is acyclic: an element only renders later elements), and
\* the handlers of its nodes.
Later(E, e) == {x \in E : x > e}
ChildSeqs(E, e) ==
    {<<>>} \cup {<<x>> : x \in Later(E, e)}
           \cup {s \in {<<x, y>> : x \in Later(E, e), y \in Later(E, e)} : s[1] # s[2]}
HandlerSeqs(H) == {<<>>} \cup {<<h>> : h \in H}
Models(E, H, e) == [children : ChildSeqs(E, e), handlers : HandlerSeqs(H), raises : {FALSE}]
Raise == [children |-> <<>>, handlers |-> <<>>, raises |-> TRUE]
Outcomes(E, H, e) == Models(E, H, e) \cup {Raise}
\* A model that lists one element twice
Twice(E, e) ==
    {[children |-> <<x, x>>, handlers |-> <<>>, raises |-> FALSE] : x \in Later(E, e)}

\* ======================================================================
\* The hooks: src/idom/core/hooks.py
\* ======================================================================
\* One element and its LifeCycleHook.  The element's render operation makes
\* the hook current, calls element_will_render, runs the component body
\* (which consumes the hooks in a fixed order), calls element_did_render and
\* unsets the hook; the phases of one hook are strictly ordered.  Event
\* handlers and other application code call the setters the body has handed
\* out, at any time.
Values == 0..MaxValue
Unset == 0 - 1            \* a _State object that has no attribute current yet
Thread == 1              \* get_thread_id(): the thread of the event loop
Element == 1             \* the element the hook belongs to
Events == {"will_render", "did_render", "will_unmount"}
EventSets == (SUBSET Events) \ {{}}

\* A callable registered with LifeCycleHook.use_effect: kind "function" is a
\* function fn of the application, "effect" the closure effect that
\* use_effect makes for the application's function fn, "clean" the closure
\* clean of an asynchronous effect, over its future, and "cleanup" the lambda
\* that calls the function fn handed to the clean of a synchronous effect.
Closure(kind, fn, future) == [kind |-> kind, fn |-> fn, future |-> future]
Effects == {Closure("function", "f1", 0), Closure("function", "f2", 0)}

\* The components the hook is run with: the hook functions the body calls in
\* every render, in order, and the effect functions it may register with
\* LifeCycleHook.use_effect.
HookApps == {[body |-> <<"use_state", "use_memo">>, effects |-> {}],
             [body |-> <<"use_memo">>, effects |-> Effects]}

\* LifeCycleHook.__init__
NewHook ==
    [element |-> Element,
     schedule_render_later |-> FALSE,
     render_is_scheduled |-> FALSE,
     is_rendering |-> FALSE,
     rendered_atleast_once |-> FALSE,
     current_state_index |-> 0,
     state |-> <<>>,
     event_effects |-> [will_render |-> <<>>, did_render |-> <<>>,
                        will_unmount |-> <<>>]]

\* The closure set_state of a use_state call: the _State object and the
\* value of current the call returned
NoClosure == [state |-> None, current |-> Unset]

\* The render in progress: pc is "idle" | "body" | "unmounted", ret the
\* objects LifeCycleHook.use_state has returned to the hook calls of this
\* render, first those it returned in the first render, closure the latest
\* set_state, saw the value of current the latest use_state returned, args
\* the args of the latest use_memo or use_effect.
IdleRender ==
    [pc |-> "idle", ret |-> <<>>, first |-> <<>>, closure |-> NoClosure, saw |-> Unset,
     args |-> <<>>]

\* The call of application code that has just returned
NoCall == [kind |-> "none", arg |-> 0, raised |-> FALSE]

\* What has been observed of the hook: made, the objects its factories have
\* made, calls, the elements the scheduling callback was invoked with since
\* the last element_will_render, ran, the effects the last phase call ran,
\* owed, the effects registered for each event since it last fired, call,
\* and surfaced, how often the exception of each task has been raised by its
\* clean (counted up to 2), and keys, for each dict of use_memo the key
\* of the last computation whose result was stored in it, and deferred,
\* whether schedule_render() has been called during the render that runs.
NewLog ==
    [made |-> 0, calls |-> <<>>, event |-> "none", ran |-> <<>>,
     owed |-> [will_render |-> <<>>, did_render |-> <<>>, will_unmount |-> <<>>],
     due |-> <<>>, call |-> NoCall, surfaced |-> <<>>, keys |-> Empty,
     deferred |-> FALSE]

\* X = [hook, objs, dict, futures, caches, log, thread, self, ret, err]: the
\* hook, the attribute current of the _State objects,
\* _current_life_cycle_hook, the state of each asyncio task, the contents of
\* the dicts, the log, the thread the operation runs in, the hook it is
\* called on, the value it returns and the exception it raises ("" for none).

\* A current_hook() that hands out the element's hook whether or not it is current
current_hook_Unchecked(X) == [X EXCEPT !.ret = X.self]

\* current_hook()
current_hook(X) ==
    IF X.thread \in DOMAIN X.dict
    THEN [X EXCEPT !.ret = X.dict[X.thread]]
    ELSE [X EXCEPT !.err = "RuntimeError"]

\* LifeCycleHook.set_current / unset_current
set_current(X) == [X EXCEPT !.dict = Put(@, X.thread, X.self)]
unset_current(X) ==
    IF X.thread \notin DOMAIN X.dict THEN [X EXCEPT !.err = "KeyError"]
    ELSE IF X.dict[X.thread] # X.self THEN [X EXCEPT !.err = "AssertionError"]
    ELSE [X EXCEPT !.dict = Drop(@, X.thread)]

\* LifeCycleHook._schedule_render
hook_schedule_render_now(X) ==
    [X EXCEPT !.hook.render_is_scheduled = TRUE,
              !.log.calls = Append(@, X.hook.element)]

\* A schedule_render that does not look at the flags
hook_schedule_render_Eager(X) == hook_schedule_render_now(X)

\* LifeCycleHook.schedule_render
hook_schedule_render(X) ==
    IF X.hook.is_rendering
    THEN [X EXCEPT !.hook.schedule_render_later = TRUE, !.log.deferred = TRUE]
    ELSE IF ~X.hook.render_is_scheduled
    THEN hook_schedule_render_now(X)
    ELSE X

\* A LifeCycleHook.use_state that calls the factory in every render
hook_use_state_Always(X) ==
    LET obj == X.log.made + 1
    IN  [X EXCEPT !.hook.state = Append(@, obj),
                  !.hook.current_state_index = @ + 1,
                  !.objs = Put(@, obj, Unset),
                  !.log.made = obj,
                  !.ret = obj]

\* LifeCycleHook.use_state: the factory makes a new object
hook_use_state(X) ==
    IF ~X.hook.rendered_atleast_once
    THEN LET obj == X.log.made + 1
         IN  [X EXCEPT !.hook.state = Append(@, obj),
                       !.hook.current_state_index = @ + 1,
                       !.objs = Put(@, obj, Unset),
                       !.log.made = obj,
                       !.ret = obj]
    ELSE IF X.hook.current_state_index + 1 > Len(X.hook.state)
    THEN [X EXCEPT !.err = "IndexError"]
    ELSE [X EXCEPT !.ret = X.hook.state[X.hook.current_state_index + 1],
                   !.hook.current_state_index = @ + 1]

\* use_state(value), value not callable: ret is (current, set_state)
use_state(X, value) ==
    LET X0 == current_hook(X)
        X1 == hook_use_state(X0)
        state == X1.ret
        X2 == IF X1.objs[state] = Unset THEN [X1 EXCEPT !.objs[state] = value] ELSE X1
    IN  IF X0.err # "" THEN X0
        ELSE IF X1.err # "" THEN X1
        ELSE [X2 EXCEPT !.ret = [state |-> state, current |-> X2.objs[state]]]

\* use_memo(function, args) up to the cache it keeps: hook.use_state(dict)
use_memo(X) ==
    LET X0 == current_hook(X)
    IN  IF X0.err # "" THEN X0 ELSE hook_use_state(X0)

\* use_update()
use_update(X) == current_hook(X)

\* The updaters and the reducer of the component: a callable new adds its
\* amount to the value it is given, the reducer adds the action to the state
Updater(amount, value) == value + amount
reducer(state, action) == state + action

\* set_state(new) of the closure [state, current]
set_state(X, closure, callable, new) ==
    LET next_state == IF callable THEN Updater(new, closure.current) ELSE new
    IN  IF next_state # closure.current
        THEN hook_schedule_render([X EXCEPT !.objs[closure.state] = next_state])
        ELSE X

\* use_reducer: dispatch(action) of the closure
dispatch(X, closure, action) ==
    set_state(X, closure, FALSE, reducer(closure.current, action))

\* LifeCycleHook.use_effect(function, *events)
hook_use_effect(X, function, events) ==
    [X EXCEPT !.hook.event_effects =
        [e \in Events |-> IF e \in events THEN Append(@[e], function) ELSE @[e]]]

\* asyncio.ensure_future(function()): a new task, "pending"; a task is then
\* "done", "failed", or, once it has been told to cancel, "cancelling" and
\* then "cancelled"
ensure_future(X) ==
    [X EXCEPT !.futures = Append(@, "pending"),
              !.log.surfaced = Append(@, 0),
              !.ret = Len(X.futures) + 1]

\* clean() of an asynchronous effect: future.result() if future.done(),
\* future.cancel() otherwise
clean(X, future) ==
    CASE X.futures[future] = "done" -> X
      [] X.futures[future] = "failed" ->
            [X EXCEPT !.err = "Exception",
                      !.log.surfaced[future] = IF @ < 2 THEN @ + 1 ELSE @]
      [] X.futures[future] = "cancelled" -> [X EXCEPT !.err = "CancelledError"]
      [] OTHER -> [X EXCEPT !.futures[future] = "cancelling"]

\* effect() of use_effect for the application's function: a coroutine
\* function "async" is started as a task, whose clean is registered; another
\* function is called with the registrar clean, and its result is dropped:
\* "registers" calls clean(cleanup), "returns" returns its cleanup
effect(X, function) ==
    CASE function = "async" ->
            LET X1 == ensure_future(X)
            IN  hook_use_effect(X1, Closure("clean", "", X1.ret),
                                {"will_render", "will_unmount"})
      [] function = "registers" ->
            hook_use_effect(X, Closure("cleanup", function, 0),
                            {"will_render", "will_unmount"})
      [] OTHER -> X

\* effect() for a registered callable
call_effect(X, closure) ==
    CASE closure.kind = "effect" -> effect(X, closure.fn)
      [] closure.kind = "clean" -> clean(X, closure.future)
      [] OTHER -> X

\* for effect in effects: effect()
RECURSIVE run_effects(_, _)
run_effects(X, effects) ==
    IF effects = <<>> \/ X.err # "" THEN X
    ELSE run_effects(call_effect([X EXCEPT !.log.ran = Append(@, Head(effects))],
                                 Head(effects)),
                     Tail(effects))

\* LifeCycleHook.element_will_render
element_will_render(X) ==
    LET X1 == [X EXCEPT !.hook.render_is_scheduled = FALSE,
                        !.hook.is_rendering = TRUE]
        X2 == run_effects(X1, X1.hook.event_effects.will_render)
    IN  IF X2.err # "" THEN X2
        ELSE [X2 EXCEPT !.hook.event_effects.will_render = <<>>,
                        !.hook.event_effects.will_unmount = <<>>]

\* An element_did_render that forgets a deferred request
element_did_render_NoLater(X) ==
    LET X1 == run_effects(X, X.hook.event_effects.did_render)
    IN  IF X1.err # "" THEN X1 ELSE
        [X1 EXCEPT !.hook.event_effects.did_render = <<>>,
                   !.hook.is_rendering = FALSE,
                   !.hook.rendered_atleast_once = TRUE,
                   !.hook.current_state_index = 0]

\* LifeCycleHook.element_did_render
element_did_render(X) ==
    LET X1 == run_effects(X, X.hook.event_effects.did_render)
        X2 == [X1 EXCEPT !.hook.event_effects.did_render = <<>>,
                         !.hook.is_rendering = FALSE]
        X3 == IF X2.hook.schedule_render_later THEN hook_schedule_render_now(X2) ELSE X2
    IN  IF X1.err # "" THEN X1
        ELSE [X3 EXCEPT !.hook.rendered_atleast_once = TRUE,
                        !.hook.current_state_index = 0]

\* LifeCycleHook.element_will_unmount
element_will_unmount(X) ==
    LET X1 == run_effects(X, X.hook.event_effects.will_unmount)
    IN  IF X1.err # "" THEN X1
        ELSE [X1 EXCEPT !.hook.event_effects.will_unmount = <<>>]

HookX ==
    [hook |-> h_hook, objs |-> h_objs, dict |-> h_current,
     futures |-> h_futures, caches |-> h_caches,
     log |-> [h_log EXCEPT !.ran = <<>>, !.event = "none", !.due = <<>>],
     thread |-> Thread, self |-> "hook",
     ret |-> None, err |-> ""]

HookCommit(X) ==
    /\ h_hook' = X.hook
    /\ h_objs' = X.objs
    /\ h_current' = X.dict
    /\ h_futures' = X.futures
    /\ h_caches' = X.caches
    /\ h_log' = X.log

\* An event fires: the effects registered for it since it last fired are due
Fire(X, event) ==
    [X EXCEPT !.log.event = event, !.log.due = X.log.owed[event],
              !.log.owed[event] = <<>>]

HookReturning == h_log.call # NoCall

\* --------------------------------------------------------- hooks: actions
\* The element's render operation begins: set_current, element_will_render
HookRenderStart ==
    /\ layout = "hook"
    /\ ~HookReturning
    /\ h_render.pc = "idle"
    /\ HookCommit(Fire(element_will_render(set_current(
           [HookX EXCEPT !.log.calls = <<>>])), "will_render"))
    /\ h_render' = [h_render EXCEPT !.pc = "body", !.ret = <<>>]
    /\ UNCHANGED <<auxvars, layout, app, semvars, corevars, trig>>

\* The body calls its next hook function
HookBodyCall ==
    /\ layout = "hook"
    /\ ~HookReturning
    /\ h_render.pc = "body"
    /\ Len(h_render.ret) < Len(app.body)
    /\ LET fn == app.body[Len(h_render.ret) + 1]
           X == IF fn = "use_state" THEN use_state(HookX, 0) ELSE use_memo(HookX)
       IN  /\ X.err = ""
           /\ HookCommit(X)
           /\ h_render' =
                IF fn = "use_state"
                THEN [h_render EXCEPT !.ret = Append(@, X.ret.state),
                                      !.closure = X.ret,
                                      !.saw = X.ret.current]
                ELSE [h_render EXCEPT !.ret = Append(@, X.ret)]
    /\ UNCHANGED <<auxvars, layout, app, semvars, corevars, trig>>

\* The body registers an effect function with the current hook
HookUseEffect(function, events) ==
    /\ layout = "hook"
    /\ ~HookReturning
    /\ h_render.pc = "body"
    /\ function \in app.effects
    /\ \A e \in events : Len(h_hook.event_effects[e]) < MaxEffects
    /\ \A e \in events : Len(h_log.owed[e]) < MaxEffects
    /\ LET X == hook_use_effect(HookX, function, events)
       IN  HookCommit([X EXCEPT !.log.owed =
                 [e \in Events |-> IF e \in events THEN Append(@[e], function) ELSE @[e]]])
    /\ UNCHANGED <<auxvars, layout, app, semvars, corevars, trig, h_render>>

\* The body has returned: element_did_render, unset_current
HookRenderEnd ==
    /\ layout = "hook"
    /\ ~HookReturning
    /\ h_render.pc = "body"
    /\ Len(h_render.ret) = Len(app.body)
    /\ LET X == unset_current(Fire(element_did_render(HookX), "did_render"))
       IN  /\ X.err = ""
           /\ HookCommit([X EXCEPT !.log.deferred = FALSE])
    /\ h_render' = [h_render EXCEPT !.pc = "idle",
                       !.first = IF h_hook.rendered_atleast_once THEN @ ELSE h_render.ret]
    /\ UNCHANGED <<auxvars, layout, app, semvars, corevars, trig>>

\* The layout deletes the element's record: element_will_unmount
HookUnmount ==
    /\ layout = "hook"
    /\ ~HookReturning
    /\ h_render.pc = "idle"
    /\ h_hook.rendered_atleast_once
    /\ HookCommit(Fire(element_will_unmount(HookX), "will_unmount"))
    /\ h_render' = [h_render EXCEPT !.pc = "unmounted"]
    /\ UNCHANGED <<auxvars, layout, app, semvars, corevars, trig>>

\* Application code calls the latest set_state with a value or an updater
HookSetState(callable, new) ==
    /\ layout = "hook"
    /\ ~HookReturning
    /\ h_render.pc # "unmounted"
    /\ h_render.closure # NoClosure
    /\ callable => h_render.closure.current + new <= MaxValue
    /\ callable => h_objs[h_render.closure.state] + new <= MaxValue
    /\ LET X == set_state(HookX, h_render.closure, callable, new)
       IN  HookCommit([X EXCEPT !.log.call =
               [kind |-> IF callable THEN "updater" ELSE "set", arg |-> new,
                raised |-> FALSE]])
    /\ UNCHANGED <<auxvars, layout, app, semvars, corevars, trig, h_render>>

\* Application code calls the latest dispatch of use_reducer
HookDispatch(action) ==
    /\ layout = "hook"
    /\ ~HookReturning
    /\ h_render.pc # "unmounted"
    /\ h_render.closure # NoClosure
    /\ h_render.closure.current + action <= MaxValue
    /\ h_objs[h_render.closure.state] + action <= MaxValue
    /\ LET X == dispatch(HookX, h_render.closure, action)
       IN  HookCommit([X EXCEPT !.log.call =
               [kind |-> "dispatch", arg |-> action, raised |-> FALSE]])
    /\ UNCHANGED <<auxvars, layout, app, semvars, corevars, trig, h_render>>

\* Application code calls the function use_update() has returned
HookScheduleRender ==
    /\ layout = "hook"
    /\ ~HookReturning
    /\ h_render.pc # "unmounted"
    /\ h_hook.rendered_atleast_once \/ h_hook.is_rendering
    /\ LET X == hook_schedule_render(HookX)
       IN  HookCommit([X EXCEPT !.log.call =
               [kind |-> "schedule_render", arg |-> 0, raised |-> FALSE]])
    /\ UNCHANGED <<auxvars, layout, app, semvars, corevars, trig, h_render>>

\* Application code calls a hook function while no render is running
HookStrayCall(fn) ==
    /\ layout = "hook"
    /\ ~HookReturning
    /\ h_render.pc # "body"
    /\ LET X == CASE fn = "use_state" -> use_state(HookX, 0)
                  [] fn = "use_memo" -> use_memo(HookX)
                  [] OTHER -> use_update(HookX)
       IN  HookCommit([X EXCEPT !.log.call =
               [kind |-> fn, arg |-> 0, raised |-> X.err = "RuntimeError"]])
    /\ UNCHANGED <<auxvars, layout, app, semvars, corevars, trig, h_render>>

\* The call returns, or its exception reaches the caller
HookReturn ==
    /\ layout = "hook"
    /\ HookReturning
    /\ h_log' = [h_log EXCEPT !.call = NoCall]
    /\ UNCHANGED <<auxvars, layout, app, semvars, corevars, trig, h_hook, h_objs, h_current,
                   h_futures, h_caches, h_render>>

\* ------------------------------------------------- use_memo and use_effect
\* The args a component gives to use_memo and use_effect: none, or a tuple
\* of one small integer.  hash(tuple(args)) is decided by the hash of the
\* integer, which is the integer itself except that hash(-1) is -2.
ArgsSet == {<<>>, <<1>>, <<0 - 1>>, <<0 - 2>>}
hash(args) == IF args[1] = 0 - 1 THEN 0 - 2 ELSE args[1]

\* The function given to use_memo by the component: lambda: value
Lambda(value) == [kind |-> "lambda", fn |-> "", future |-> 0, value |-> value]

\* The functions given to use_effect by the components
Functions == {"async", "returns", "registers"}

\* The components the effect hooks are run with: the hook functions the body
\* calls in every render, in order, and the function each is given
EffectApps ==
    {[body |-> <<"use_memo">>, functions |-> <<"lambda">>],
     [body |-> <<"use_effect", "use_effect">>, functions |-> <<"async", "async">>],
     [body |-> <<"use_effect", "use_effect">>, functions |-> <<"returns", "registers">>]}

\* The dict that hook.use_state(dict) has returned
cache_of(X, cache) == IF cache \in DOMAIN X.caches THEN X.caches[cache] ELSE Empty

\* _register_effect() of use_effect for the application's function
register_effect(X, function) ==
    LET X0 == current_hook(X)
    IN  IF X0.err # "" THEN X0
        ELSE [hook_use_effect(X0, Closure("effect", function, 0), {"did_render"})
                 EXCEPT !.ret = None]

\* function() for the function given to a memoize
call_function(X, function) ==
    LET X1 == [X EXCEPT !.log.ran = Append(@, function)]
    IN  IF function.kind = "lambda" THEN [X1 EXCEPT !.ret = function.value]
        ELSE register_effect(X1, function.fn)

\* A setup of use_memo that keeps the entries of the other keys
memoize_NoClear(X, cache, args, function) ==
    IF args = <<>> THEN call_function(X, function)
    ELSE IF hash(args) \in DOMAIN cache_of(X, cache)
    THEN [X EXCEPT !.ret = cache_of(X, cache)[hash(args)]]
    ELSE LET X2 == call_function(X, function)
         IN  IF X2.err # "" THEN X2
             ELSE [X2 EXCEPT !.caches = Put(@, cache, Put(cache_of(X2, cache), hash(args), X2.ret))]

\* setup(function) of use_memo, for the cache and the args of the call
memoize(X, cache, args, function) ==
    IF args = <<>> THEN call_function(X, function)
    ELSE IF hash(args) \in DOMAIN cache_of(X, cache)
    THEN [X EXCEPT !.ret = cache_of(X, cache)[hash(args)]]
    ELSE LET X1 == [X EXCEPT !.caches = Put(@, cache, Empty)]
             X2 == call_function(X1, function)
         IN  IF X2.err # "" THEN X2
             ELSE [X2 EXCEPT !.caches = Put(@, cache, Put(Empty, hash(args), X2.ret))]

\* use_memo(function, args)
use_memo_function(X, function, args) ==
    LET X1 == use_memo(X)
    IN  IF X1.err # "" THEN X1 ELSE memoize(X1, X1.ret, args, function)

\* use_effect(function, args)
use_effect(X, function, args) ==
    use_memo_function(X, Closure("_register_effect", function, 0), args)

\* --------------------------------------------------- effect hooks: actions
EffectX == [HookX EXCEPT !.log.call = NoCall]

\* The tasks the effects waiting for did_render will start
Starting(X) ==
    Cardinality({i \in DOMAIN X.hook.event_effects.did_render :
                    X.hook.event_effects.did_render[i] = Closure("effect", "async", 0)})

\* The element's render operation begins: set_current, element_will_render;
\* an exception of element_will_render ends the render
EffectRenderStart ==
    /\ layout = "effect"
    /\ h_render.pc = "idle"
    /\ LET X == Fire(element_will_render(set_current(
                    [EffectX EXCEPT !.log.calls = <<>>])), "will_render")
       IN  IF X.err = ""
           THEN /\ HookCommit(X)
                /\ h_render' = [h_render EXCEPT !.pc = "body", !.ret = <<>>]
           ELSE /\ HookCommit([unset_current([X EXCEPT !.err = ""]) EXCEPT !.log.call =
                       [kind |-> "will_render", arg |-> 0, raised |-> TRUE]])
                /\ h_render' = h_render
    /\ UNCHANGED <<auxvars, layout, app, semvars, corevars, trig>>

\* The body calls its next hook function, with the args of this render
EffectBodyCall(args, value) ==
    /\ layout = "effect"
    /\ h_render.pc = "body"
    /\ Len(h_render.ret) < Len(app.body)
    /\ LET i == Len(h_render.ret) + 1
           function == IF app.body[i] = "use_memo" THEN Lambda(value)
                       ELSE Closure("_register_effect", app.functions[i], 0)
           X == use_memo_function(EffectX, function, args)
           cache == X.hook.state[i]
           called == function \in Range(X.log.ran)
       IN  /\ app.body[i] = "use_memo" \/ value = 0
           /\ X.err = ""
           /\ Len(X.futures) + Starting(X) <= MaxFutures
           /\ HookCommit([X EXCEPT
                  !.log.keys = IF called /\ args # <<>> THEN Put(@, cache, hash(args)) ELSE @,
                  !.log.call = [kind |-> app.body[i], arg |-> X.ret, raised |-> FALSE]])
           /\ h_render' = [h_render EXCEPT !.ret = Append(@, cache), !.args = args]
    /\ UNCHANGED <<auxvars, layout, app, semvars, corevars, trig>>

\* The body has returned: element_did_render, unset_current
EffectRenderEnd ==
    /\ layout = "effect"
    /\ h_render.pc = "body"
    /\ Len(h_render.ret) = Len(app.body)
    /\ LET X == unset_current(Fire(element_did_render(EffectX), "did_render"))
       IN  /\ X.err = ""
           /\ HookCommit(X)
    /\ h_render' = [h_render EXCEPT !.pc = "idle",
                       !.first = IF h_hook.rendered_atleast_once THEN @ ELSE h_render.ret]
    /\ UNCHANGED <<auxvars, layout, app, semvars, corevars, trig>>

\* The layout deletes the element's record: element_will_unmount
EffectUnmount ==
    /\ layout = "effect"
    /\ h_render.pc = "idle"
    /\ h_hook.rendered_atleast_once
    /\ LET X == Fire(element_will_unmount(EffectX), "will_unmount")
       IN  HookCommit([X EXCEPT !.err = "", !.log.call =
               [kind |-> "will_unmount", arg |-> 0, raised |-> X.err # ""]])
    /\ h_render' = [h_render EXCEPT !.pc = "unmounted"]
    /\ UNCHANGED <<auxvars, layout, app, semvars, corevars, trig>>

\* The event loop runs a task to its end: the coroutine returns or raises,
\* or the task that was told to cancel is cancelled
TaskFinish(future, outcome) ==
    /\ layout = "effect"
    /\ future \in DOMAIN h_futures
    /\ \/ h_futures[future] = "pending" /\ outcome \in {"done", "failed"}
       \/ h_futures[future] = "cancelling" /\ outcome = "cancelled"
    /\ h_futures' = [h_futures EXCEPT ![future] = outcome]
    /\ h_log' = [h_log EXCEPT !.ran = <<>>, !.event = "none", !.due = <<>>,
                              !.call = NoCall]
    /\ UNCHANGED <<auxvars, layout, app, semvars, corevars, trig, h_hook, h_objs, h_current,
                   h_caches, h_render>>

\* Nothing is loaded outside a layout, there is no other queue and no
\* other execution context
AuxOff ==
    /\ m_loaded = <<>>
    /\ q_futures = <<>>
    /\ q_queue = <<>>
    /\ q_calls = <<>>
    /\ q_log = <<>>
    /\ x_renders = <<>>

\* No hook: the layouts are run with elements that use none
HookOff ==
    /\ h_hook = NewHook
    /\ h_objs = Empty
    /\ h_current = Empty
    /\ h_futures = <<>>
    /\ h_caches = Empty
    /\ h_render = IdleRender
    /\ h_log = NewLog

\* ======================================================================
\* The semaphore-based Layout: src/src/py/idom/layout.py
\* ======================================================================
NewState(parent) ==
    [parent |-> parent, inner_elements |-> {}, event_handlers |-> Empty]

\* EventHandler.serialize(): the specification a handler is stored under
sem_serialize(h) == h

sem_has_element_state(st, eid) == eid \in DOMAIN st

\* D = [st, err]
sem_create_element_state(D, eid, parent) ==
    LET st1 == IF parent # None /\ sem_has_element_state(D.st, parent)
               THEN [D.st EXCEPT ![parent].inner_elements = @ \cup {eid}]
               ELSE D.st
    IN  [D EXCEPT !.st = Put(st1, eid, NewState(parent))]

RECURSIVE sem_delete_element_state(_, _, _)
RECURSIVE sem_delete_inner(_, _, _)
sem_delete_element_state(D, eid, rev) ==
    IF D.err THEN D
    ELSE IF eid \notin DOMAIN D.st THEN [D EXCEPT !.err = TRUE]   \* pop: KeyError
    ELSE LET old == D.st[eid]
             st1 == Drop(D.st, eid)
             p   == old.parent
         IN  IF sem_has_element_state(st1, p)
             THEN IF eid \notin st1[p].inner_elements
                  THEN [st |-> st1, err |-> TRUE]            \* remove: KeyError
                  ELSE sem_delete_inner(
                         [D EXCEPT !.st = [st1 EXCEPT ![p].inner_elements = @ \ {eid}]],
                         SetToSeq(old.inner_elements, rev), rev)
             ELSE sem_delete_inner([D EXCEPT !.st = st1],
                                   SetToSeq(old.inner_elements, rev), rev)
sem_delete_inner(D, todo, rev) ==
    IF D.err \/ todo = <<>> THEN D
    ELSE sem_delete_inner(sem_delete_element_state(D, Head(todo), rev), Tail(todo), rev)

sem_reset_element_state(D, eid, rev) ==
    LET parent == D.st[eid].parent
        D1 == sem_delete_element_state(D, eid, rev)
    IN  IF D1.err THEN D1 ELSE sem_create_element_state(D1, eid, parent)

\* _load_model / _load_event_handlers: every handler of the model is stored
\* in the element's record under its serialized specification.
RECURSIVE sem_load_event_handlers(_, _, _)
sem_load_event_handlers(D, eid, handlers) ==
    IF D.err \/ handlers = <<>> THEN D
    ELSE IF eid \notin DOMAIN D.st THEN [D EXCEPT !.err = TRUE]
    ELSE sem_load_event_handlers(
           [D EXCEPT !.st[eid].event_handlers = Put(@, sem_serialize(Head(handlers)),
                                                    Head(handlers))],
           eid, Tail(handlers))

IdleCall ==
    [pc |-> "idle", current |-> {}, updates |-> <<>>, ui |-> 0, roots |-> <<>>,
     new |-> {}, old |-> {}, stack |-> <<>>, result |-> "none", q_at_call |-> <<>>]

Frame(e, parent) ==
    [elem |-> e, parent |-> parent, awaiting |-> TRUE, todo |-> <<>>, handlers |-> <<>>]

\* X = [st, q, sem, anim, rendering, p]: the layout's fields and the call's locals.
\* An exception leaves render(): nothing after the raise runs, so _rendering
\* keeps the value it has.
SemRaise(X, kind) ==
    [X EXCEPT !.p.pc = "done", !.p.result = kind, !.p.stack = <<>>]

\* _render_element up to "await element.render()"
sem_render_element(X, e, parent) ==
    [X EXCEPT !.p.pc = "render", !.p.stack = Append(@, Frame(e, parent))]

\* render(), lines 128-133
SemReturn(X) ==
    [X EXCEPT !.rendering = FALSE,
              !.p.pc = "done", !.p.result = "ok",
              !.p.old = X.p.current \ DOMAIN X.st]

\* render(), the loop of lines 122-126 at element number p.ui
SemNextRoot(X) ==
    IF X.p.ui > Len(X.p.updates) THEN SemReturn(X)
    ELSE LET e == X.p.updates[X.p.ui]
         IN  IF e \notin DOMAIN X.st THEN SemRaise(X, "KeyError")
             ELSE sem_render_element(X, e, X.st[e].parent)

\* _render_model from the node the walk has reached, to the next await
RECURSIVE sem_render_model(_)
sem_render_model(X) ==
    LET n == Len(X.p.stack)
        F == X.p.stack[n]
    IN  IF F.todo # <<>>
        THEN sem_render_element(
                 [X EXCEPT !.p.stack[n].todo = Tail(F.todo)], Head(F.todo), F.elem)
        ELSE LET D == sem_load_event_handlers([st |-> X.st, err |-> FALSE],
                                              F.elem, F.handlers)
             IN  IF D.err THEN SemRaise([X EXCEPT !.st = D.st], "RenderError")
                 ELSE LET X1 == [X EXCEPT !.st = D.st,
                                          !.p.new = @ \cup {F.elem},
                                          !.p.stack = SubSeq(@, 1, n - 1)]
                      IN  IF n > 1 THEN sem_render_model(X1)
                          ELSE SemNextRoot([X1 EXCEPT !.p.roots = Append(@, F.elem),
                                                      !.p.ui = @ + 1])

\* _render_element after "await element.render()" has produced out
sem_render_element_resume(X, out, rev) ==
    LET n == Len(X.p.stack)
        F == X.p.stack[n]
    IN  IF out.raises THEN SemRaise(X, "RenderError")
        ELSE LET D0 == [st |-> X.st, err |-> FALSE]
                 D == IF sem_has_element_state(X.st, F.elem)
                      THEN sem_reset_element_state(D0, F.elem, rev)
                      ELSE sem_create_element_state(D0, F.elem, F.parent)
             IN  IF D.err THEN SemRaise([X EXCEPT !.st = D.st], "RenderError")
                 ELSE sem_render_model(
                        [X EXCEPT !.st = D.st,
                                  !.p.stack[n] = [F EXCEPT !.awaiting = FALSE,
                                                           !.todo = out.children,
                                                           !.handlers = out.handlers]])

\* render(), lines 119-120
SemSnapshot(X) ==
    SemNextRoot([X EXCEPT !.q = <<>>, !.p.updates = X.q, !.p.ui = 1])

\* render(), lines 108-112
SemAfterAcquire(X) ==
    LET X1 == [X EXCEPT !.p.current = DOMAIN X.st]
    IN  IF X.anim > 0
        THEN [X1 EXCEPT !.anim = 0, !.p.pc = "gather"]
        ELSE SemSnapshot(X1)

\* A render() without the test of _rendering
SemRenderEnter_Unguarded(X) ==
    LET X1 == [X EXCEPT !.rendering = TRUE,
                        !.p = [IdleCall EXCEPT !.q_at_call = X.q]]
    IN  IF X.sem = 0 THEN [X1 EXCEPT !.p.pc = "acquire"]
        ELSE SemAfterAcquire([X1 EXCEPT !.sem = @ - 1])

\* render(), lines 100-105
SemRenderEnter(X) ==
    IF X.rendering
    THEN [X EXCEPT !.p = [IdleCall EXCEPT !.pc = "done", !.result = "RuntimeError"]]
    ELSE LET X1 == [X EXCEPT !.rendering = TRUE,
                             !.p = [IdleCall EXCEPT !.q_at_call = X.q]]
         IN  IF X.sem = 0 THEN [X1 EXCEPT !.p.pc = "acquire"]
             ELSE SemAfterAcquire([X1 EXCEPT !.sem = @ - 1])

SemX(c) ==
    [st |-> s_state, q |-> s_update_queue, sem |-> s_render_semaphore,
     anim |-> s_animate_queue, rendering |-> s_rendering, p |-> s_call[c]]

SemCommit(c, X) ==
    /\ s_state' = X.st
    /\ s_update_queue' = X.q
    /\ s_render_semaphore' = X.sem
    /\ s_animate_queue' = X.anim
    /\ s_rendering' = X.rendering
    /\ s_call' = [s_call EXCEPT ![c] = X.p]

\* update() and animate() that release whether the semaphore is locked or not
SemRelease_Always(v) == v + 1

\* Semaphore.release() as update() and animate() call it
SemRelease(v) == IF v = 0 THEN v + 1 ELSE v

\* The call in flight of apply() / trigger(): target and key are its
\* arguments, calls lists the handlers it has invoked and that still run,
\* raised tells whether it ended in an exception.  pc is "handler" while it
\* awaits the handler and "ignored" when it returns without having called one.
IdleTrig == [pc |-> "idle", target |-> None, key |-> None, calls |-> <<>>,
             raised |-> FALSE]

\* apply(target, handler, data) up to "await event_handler(data)"
sem_apply(st, target, handler) ==
    IF target \in DOMAIN st /\ handler \in DOMAIN st[target].event_handlers
    THEN [pc |-> "handler", target |-> target, key |-> handler,
          calls |-> <<st[target].event_handlers[handler]>>, raised |-> FALSE]
    ELSE [pc |-> "ignored", target |-> target, key |-> handler,
          calls |-> <<>>, raised |-> FALSE]

\* render() returns to the caller that awaits it without a suspension point in
\* between: nothing else runs while a result is on its way to the caller.
\* The same holds of an apply() / trigger() that returns at once.
Returning == \/ \E c \in Callers : s_call[c].pc = "done"
             \/ trig.pc = "ignored"

\* ----------------------------------------------------------- sem: actions
SemUpdate(e) ==
    /\ layout = "sem"
    /\ ~Returning
    /\ Len(s_update_queue) < MaxQueue
    /\ s_update_queue' = Append(s_update_queue, e)
    /\ s_render_semaphore' = SemRelease(s_render_semaphore)
    /\ UNCHANGED <<hookvars, auxvars, layout, app, s_state, s_animate_queue, s_rendering, s_call, corevars, trig>>

SemAnimate ==
    /\ layout = "sem"
    /\ ~Returning
    /\ s_animate_queue < MaxAnimate
    /\ s_animate_queue' = s_animate_queue + 1
    /\ s_render_semaphore' = SemRelease(s_render_semaphore)
    /\ UNCHANGED <<hookvars, auxvars, layout, app, s_state, s_update_queue, s_rendering, s_call, corevars, trig>>

\* Callers are anonymous tasks: the idle caller of lowest number makes the call.
SemRenderCall(c) ==
    /\ layout = "sem"
    /\ ~Returning
    /\ s_call[c].pc = "idle"
    /\ \A d \in Callers : d < c => s_call[d].pc # "idle"
    /\ SemCommit(c, SemRenderEnter(SemX(c)))
    /\ UNCHANGED <<hookvars, auxvars, layout, app, corevars, trig>>

SemAcquire(c) ==
    /\ layout = "sem"
    /\ ~Returning
    /\ s_call[c].pc = "acquire"
    /\ s_render_semaphore > 0
    /\ SemCommit(c, SemAfterAcquire([SemX(c) EXCEPT !.sem = @ - 1]))
    /\ UNCHANGED <<hookvars, auxvars, layout, app, corevars, trig>>

SemGatherDone(c) ==
    /\ layout = "sem"
    /\ ~Returning
    /\ s_call[c].pc = "gather"
    /\ SemCommit(c, SemSnapshot(SemX(c)))
    /\ UNCHANGED <<hookvars, auxvars, layout, app, corevars, trig>>

SemRenderResume(c) ==
    /\ layout = "sem"
    /\ ~Returning
    /\ s_call[c].pc = "render"
    /\ \E out \in Outcomes(app.elems, app.handlers, s_call[c].stack[Len(s_call[c].stack)].elem), rev \in BOOLEAN :
          SemCommit(c, sem_render_element_resume(SemX(c), out, rev))
    /\ UNCHANGED <<hookvars, auxvars, layout, app, corevars, trig>>

\* The caller of render() receives the result or the exception.
SemRenderReturn(c) ==
    /\ layout = "sem"
    /\ s_call[c].pc = "done"
    /\ s_call' = [s_call EXCEPT ![c] = IdleCall]
    /\ UNCHANGED <<hookvars, auxvars, layout, app, s_state, s_update_queue, s_render_semaphore,
                   s_animate_queue, s_rendering, corevars, trig>>

SemApply(target, handler) ==
    /\ layout = "sem"
    /\ ~Returning
    /\ trig.pc = "idle"
    /\ trig' = sem_apply(s_state, target, handler)
    /\ UNCHANGED <<hookvars, auxvars, layout, app, semvars, corevars>>

\* The awaited handler completes, and apply() / trigger() with it.
HandlerDone ==
    /\ trig.pc = "handler"
    /\ ~Returning
    /\ trig' = IdleTrig
    /\ UNCHANGED <<hookvars, auxvars, layout, app, semvars, corevars>>

\* apply() / trigger() returns without having called a handler.
TriggerReturn ==
    /\ trig.pc = "ignored"
    /\ trig' = IdleTrig
    /\ UNCHANGED <<hookvars, auxvars, layout, app, semvars, corevars>>

\* ======================================================================
\* The core Layout: src/idom/core/layout.py
\* ======================================================================
CoreNewState(parent) ==
    [parent |-> parent, inner_elements |-> {}, event_handlers |-> <<>>]

\* EventHandler.id: derived from the identity of the handler object
core_handler_id(h) == h

core_has_element_state(st, eid) == eid \in DOMAIN st

\* Y = [st, reg, mounted, t, err, fin, outcome]: the layout's fields, the
\* locals of the _render task, whether an exception is propagating, and the
\* task's future once it is finished.  Besides the locals current and new, a
\* task records what its pass has done: loaded, the elements whose model
\* _load_model has returned, below, the elements that were below its element
\* when it began, owned, the handler ids in their records then, held, the
\* handler ids in the record of its own element then (kept while the render
\* of that element is awaited),
\* registered, the handler ids it has put in the registry, and out_of_turn,
\* the elements it has called mount on when their last life cycle call was
\* mount, or unmount on when it was not.
CoreErr(Y) == [Y EXCEPT !.err = TRUE]

\* _create_element_state, with element.mount(self)
core_create_element_state(Y, e, parent) ==
    LET st1 == IF parent # None /\ core_has_element_state(Y.st, parent)
               THEN [Y.st EXCEPT ![parent].inner_elements = @ \cup {e}]
               ELSE Y.st
    IN  [Y EXCEPT !.st = Put(st1, e, CoreNewState(parent)),
                  !.mounted = @ \cup {e},
                  !.t.out_of_turn = IF e \in Y.mounted THEN @ \cup {e} ELSE @]

\* _delete_element_state, line 283-284
RECURSIVE core_delete_handlers(_, _)
core_delete_handlers(Y, ids) ==
    IF Y.err \/ ids = <<>> THEN Y
    ELSE IF Head(ids) \notin DOMAIN Y.reg THEN CoreErr(Y)          \* del: KeyError
    ELSE core_delete_handlers([Y EXCEPT !.reg = Drop(@, Head(ids))], Tail(ids))

RECURSIVE core_delete_element_state(_, _, _, _)
RECURSIVE core_delete_inner(_, _, _)
core_delete_element_state(Y, eid, unmount, rev) ==
    IF Y.err THEN Y
    ELSE IF eid \notin DOMAIN Y.st THEN CoreErr(Y)                 \* pop: KeyError
    ELSE LET old == Y.st[eid]
             st1 == Drop(Y.st, eid)
             p   == old.parent
             Y1  == IF core_has_element_state(st1, p)
                    THEN IF eid \notin st1[p].inner_elements
                         THEN CoreErr([Y EXCEPT !.st = st1])       \* remove: KeyError
                         ELSE [Y EXCEPT !.st = [st1 EXCEPT ![p].inner_elements = @ \ {eid}]]
                    ELSE [Y EXCEPT !.st = st1]
             Y2  == core_delete_handlers(Y1, old.event_handlers)
             Y3  == core_delete_inner(Y2, SetToSeq(old.inner_elements, rev), rev)
         IN  IF Y3.err \/ ~unmount THEN Y3
             ELSE [Y3 EXCEPT !.mounted = @ \ {eid},               \* element.unmount()
                             !.t.out_of_turn = IF eid \in Y3.mounted THEN @
                                               ELSE @ \cup {eid}]
core_delete_inner(Y, todo, rev) ==
    IF Y.err \/ todo = <<>> THEN Y
    ELSE core_delete_inner(core_delete_element_state(Y, Head(todo), TRUE, rev),
                           Tail(todo), rev)

core_reset_element_state(Y, e, rev) ==
    LET parent == Y.st[e].parent
        Y1 == core_delete_element_state(Y, e, FALSE, rev)
    IN  IF Y1.err THEN Y1 ELSE core_create_element_state(Y1, e, parent)

\* _load_event_handlers, lines 236-241, for the handlers of an element's model
RECURSIVE core_load_event_handlers(_, _, _)
core_load_event_handlers(Y, eid, handlers) ==
    IF Y.err \/ handlers = <<>> THEN Y
    ELSE LET h == Head(handlers)
             Y1 == [Y EXCEPT !.reg = Put(@, core_handler_id(h), h),
                             !.t.registered = @ \cup {core_handler_id(h)}]
         IN  IF eid \notin DOMAIN Y.st THEN CoreErr(Y1)            \* KeyError
             ELSE core_load_event_handlers(
                    [Y1 EXCEPT !.st[eid].event_handlers = Append(@, core_handler_id(h))],
                    eid, Tail(handlers))

NewTask(e) ==
    [elem |-> e, pc |-> "created", current |-> {}, new |-> {}, loaded |-> {},
     below |-> {}, owned |-> {}, held |-> {}, registered |-> {},
     out_of_turn |-> {}, stack |-> <<>>]

\* A _render whose RenderError carries an empty update
CoreFinish_NoPartial(Y, kind) ==
    [Y EXCEPT !.fin = TRUE, !.err = FALSE,
              !.outcome = [kind |-> kind, src |-> Y.t.elem,
                           new |-> IF kind = "ok" THEN Y.t.new ELSE {},
                           old |-> IF kind = "ok" THEN Y.t.current \ DOMAIN Y.st ELSE {},
                           loaded |-> Y.t.loaded, below |-> Y.t.below,
                           owned |-> Y.t.owned, registered |-> Y.t.registered]]

\* _render, the finally block and the end of the task: its future is finished.
\* partial_render of a RenderError is the update of the finally block.
CoreFinish(Y, kind) ==
    [Y EXCEPT !.fin = TRUE, !.err = FALSE,
              !.outcome = [kind |-> kind, src |-> Y.t.elem, new |-> Y.t.new,
                           old |-> Y.t.current \ DOMAIN Y.st,
                           loaded |-> Y.t.loaded, below |-> Y.t.below,
                           owned |-> Y.t.owned, registered |-> Y.t.registered]]

\* _render, line 133: an exception of _element_parent is outside the try
CoreFinishKeyError(Y) ==
    [Y EXCEPT !.fin = TRUE,
              !.outcome = [kind |-> "KeyError", src |-> Y.t.elem, new |-> {},
                           old |-> {}, loaded |-> {}, below |-> Y.t.below,
                           owned |-> Y.t.owned, registered |-> {}]]

\* _render_element up to "await element.render()"
core_render_element(Y, e, parent, rev) ==
    LET Y1 == IF core_has_element_state(Y.st, e)
              THEN core_reset_element_state(Y, e, rev)
              ELSE core_create_element_state(Y, e, parent)
    IN  IF Y1.err THEN CoreFinish(Y1, "RenderError")
        ELSE [Y1 EXCEPT !.t.pc = "render", !.t.stack = Append(@, Frame(e, parent))]

\* _render_model from the node the walk has reached, to the next await
RECURSIVE core_render_model(_, _)
core_render_model(Y, rev) ==
    LET n == Len(Y.t.stack)
        F == Y.t.stack[n]
    IN  IF F.todo # <<>>
        THEN core_render_element([Y EXCEPT !.t.stack[n].todo = Tail(F.todo)],
                                 Head(F.todo), F.elem, rev)
        ELSE LET Y1 == core_load_event_handlers(Y, F.elem, F.handlers)
             IN  IF Y1.err THEN CoreFinish(Y1, "RenderError")
                 ELSE LET Y2 == [Y1 EXCEPT !.t.loaded = @ \cup {F.elem},
                                           !.t.new = @ \cup {F.elem},
                                           !.t.stack = SubSeq(@, 1, n - 1)]
                      IN  IF n > 1 THEN core_render_model(Y2, rev)
                          ELSE CoreFinish(Y2, "ok")

\* _render_element after "await element.render()" has produced out
core_render_element_resume(Y, out, rev) ==
    LET n == Len(Y.t.stack)
        F == Y.t.stack[n]
    IN  IF out.raises THEN CoreFinish(Y, "RenderError")
        ELSE core_render_model(
               [Y EXCEPT !.t.held = IF n = 1 THEN {} ELSE @,
                         !.t.stack[n] = [F EXCEPT !.awaiting = FALSE,
                                                  !.todo = out.children,
                                                  !.handlers = out.handlers]], rev)

\* The elements recorded below e: its inner_elements, and theirs
RECURSIVE Below(_, _)
Below(st, e) ==
    IF e \notin DOMAIN st THEN {}
    ELSE LET inner == st[e].inner_elements \cap DOMAIN st
         IN  inner \cup UNION {Below(st, x) : x \in inner}

\* _element_parent: the lookup fails for an element that has no record and
\* is not the root
core_element_parent_fails(st, e) == e \notin DOMAIN st /\ e # Root
core_element_parent(st, e) == IF e \in DOMAIN st THEN st[e].parent ELSE None

\* _render, from the start of the task to the first await
core_render(Y, rev) ==
    LET Y1 == [Y EXCEPT !.t.current = DOMAIN Y.st,
                        !.t.below = Below(Y.st, Y.t.elem),
                        !.t.owned = UNION {Range(Y.st[x].event_handlers) :
                                             x \in Below(Y.st, Y.t.elem)},
                        !.t.held = IF Y.t.elem \in DOMAIN Y.st
                                   THEN Range(Y.st[Y.t.elem].event_handlers)
                                   ELSE {}]
    IN  IF core_element_parent_fails(Y.st, Y.t.elem) THEN CoreFinishKeyError(Y1)
        ELSE core_render_element(Y1, Y.t.elem, core_element_parent(Y.st, Y.t.elem), rev)

\* A trigger that looks the target up without the membership test
core_trigger_Unchecked(reg, target) ==
    IF target \in DOMAIN reg
    THEN [pc |-> "handler", target |-> target, key |-> None,
          calls |-> <<reg[target]>>, raised |-> FALSE]
    ELSE [pc |-> "ignored", target |-> target, key |-> None,
          calls |-> <<>>, raised |-> TRUE]

\* trigger(event) up to "await handler(event.data)"
core_trigger(reg, target) ==
    IF target \in DOMAIN reg
    THEN [pc |-> "handler", target |-> target, key |-> None,
          calls |-> <<reg[target]>>, raised |-> FALSE]
    ELSE [pc |-> "ignored", target |-> target, key |-> None,
          calls |-> <<>>, raised |-> FALSE]

CoreY(i) ==
    [st |-> c_element_state, reg |-> c_event_handlers, mounted |-> c_mounted,
     t |-> c_tasks[i], err |-> FALSE, fin |-> FALSE, outcome |-> None]

RemoveAt(q, i) == SubSeq(q, 1, i - 1) \o SubSeq(q, i + 1, Len(q))

\* FutureQueue.put, the wrapper: a finished task puts its future in the queue
CoreCommit(i, Y) ==
    /\ c_element_state' = Y.st
    /\ c_event_handlers' = Y.reg
    /\ c_mounted' = Y.mounted
    /\ IF Y.fin
       THEN /\ c_tasks' = RemoveAt(c_tasks, i)
            /\ c_queue' = Append(c_queue, Y.outcome)
       ELSE /\ c_tasks' = [c_tasks EXCEPT ![i] = Y.t]
            /\ c_queue' = c_queue

\* ---------------------------------------------------------- core: actions
\* update(element): FutureQueue.put(self._render(element))
CoreUpdate(e) ==
    /\ layout = "core"
    /\ ~Returning
    /\ Len(c_tasks) + Len(c_queue) < app.tasks
    /\ c_tasks' = Append(c_tasks, NewTask(e))
    /\ UNCHANGED <<hookvars, auxvars, layout, app, semvars, c_element_state, c_event_handlers, c_mounted,
                   c_queue, trig>>

\* The event loop starts the tasks in the order ensure_future made them.
CoreTaskStart(i) ==
    /\ layout = "core"
    /\ ~Returning
    /\ c_tasks[i].pc = "created"
    /\ \A j \in 1..(i - 1) : c_tasks[j].pc # "created"
    /\ \E rev \in BOOLEAN : CoreCommit(i, core_render(CoreY(i), rev))
    /\ UNCHANGED <<hookvars, auxvars, layout, app, semvars, trig>>

CoreTaskResume(i) ==
    /\ layout = "core"
    /\ ~Returning
    /\ c_tasks[i].pc = "render"
    /\ \E out \in Outcomes(app.elems, app.handlers,
                           c_tasks[i].stack[Len(c_tasks[i].stack)].elem)
                    \cup (IF app.twice
                          THEN Twice(app.elems, c_tasks[i].stack[Len(c_tasks[i].stack)].elem)
                          ELSE {}),
          rev \in BOOLEAN :
          CoreCommit(i, core_render_element_resume(CoreY(i), out, rev))
    /\ UNCHANGED <<hookvars, auxvars, layout, app, semvars, trig>>

\* render(): FutureQueue.get() hands out the oldest finished future
CoreRender ==
    /\ layout = "core"
    /\ ~Returning
    /\ c_queue # <<>>
    /\ c_queue' = Tail(c_queue)
    /\ UNCHANGED <<hookvars, auxvars, layout, app, semvars, c_element_state, c_event_handlers, c_mounted,
                   c_tasks, trig>>

CoreTrigger(target) ==
    /\ layout = "core"
    /\ ~Returning
    /\ trig.pc = "idle"
    /\ trig' = core_trigger(c_event_handlers, target)
    /\ UNCHANGED <<hookvars, auxvars, layout, app, semvars, corevars>>

\* __init__: no record yet, the root's first render is a task
InitCore ==
    /\ layout = "core"
    /\ app \in CoreApps
    /\ c_element_state = Empty
    /\ c_event_handlers = Empty
    /\ c_mounted = {}
    /\ c_tasks = <<NewTask(Root)>>
    /\ HookOff
    /\ AuxOff
    /\ c_queue = <<>>
    /\ trig = IdleTrig
    /\ s_state = Empty /\ s_update_queue = <<>> /\ s_render_semaphore = 0
    /\ s_animate_queue = 0 /\ s_rendering = FALSE
    /\ s_call = [c \in Callers |-> IdleCall]

NextCore ==
    \/ \E e \in app.elems : CoreUpdate(e)
    \/ \E i \in DOMAIN c_tasks : CoreTaskStart(i)
    \/ \E i \in DOMAIN c_tasks : CoreTaskResume(i)
    \/ CoreRender
    \/ \E h \in app.handlers : CoreTrigger(h)
    \/ HandlerDone
    \/ TriggerReturn

SpecCore == InitCore /\ [][NextCore]_vars


\* __init__: the root has a record and is queued
InitSem ==
    /\ layout = "sem"
    /\ app \in SemApps
    /\ s_state = (Root :> NewState(None))
    /\ s_update_queue = <<Root>>
    /\ HookOff
    /\ AuxOff
    /\ s_render_semaphore = 1
    /\ s_animate_queue = 0
    /\ s_rendering = FALSE
    /\ s_call = [c \in Callers |-> IdleCall]
    /\ trig = IdleTrig
    /\ c_element_state = Empty /\ c_event_handlers = Empty /\ c_mounted = {}
    /\ c_tasks = <<>> /\ c_queue = <<>>

NextSem ==
    \/ \E e \in app.elems : SemUpdate(e)
    \/ SemAnimate
    \/ \E c \in Callers : SemRenderCall(c)
    \/ \E c \in Callers : SemAcquire(c)
    \/ \E c \in Callers : SemGatherDone(c)
    \/ \E c \in Callers : SemRenderResume(c)
    \/ \E c \in Callers : SemRenderReturn(c)
    \/ \E t \in app.elems, h \in app.handlers : SemApply(t, h)
    \/ HandlerDone
    \/ TriggerReturn

SpecSem == InitSem /\ [][NextSem]_vars

\* Either layout
InitAll == InitSem \/ InitCore
NextAll == NextSem \/ NextCore
SpecAll == InitAll /\ [][NextAll]_vars

\* The hook of one element, driven by its renders
InitHook ==
    /\ layout = "hook"
    /\ app \in HookApps
    /\ HookOff
    /\ AuxOff
    /\ s_state = Empty /\ s_update_queue = <<>> /\ s_render_semaphore = 0
    /\ s_animate_queue = 0 /\ s_rendering = FALSE
    /\ s_call = [c \in Callers |-> IdleCall]
    /\ c_element_state = Empty /\ c_event_handlers = Empty /\ c_mounted = {}
    /\ c_tasks = <<>> /\ c_queue = <<>>
    /\ trig = IdleTrig

NextHook ==
    \/ HookRenderStart
    \/ HookBodyCall
    \/ \E f \in Effects, events \in EventSets : HookUseEffect(f, events)
    \/ HookRenderEnd
    \/ HookUnmount
    \/ \E callable \in BOOLEAN, new \in Values : HookSetState(callable, new)
    \/ \E action \in Values : HookDispatch(action)
    \/ HookScheduleRender
    \/ \E fn \in {"use_state", "use_memo", "use_update"} : HookStrayCall(fn)
    \/ HookReturn

SpecHook == InitHook /\ [][NextHook]_vars

\* The hook of one element whose body uses use_memo or use_effect
InitEffect ==
    /\ layout = "effect"
    /\ app \in EffectApps
    /\ HookOff
    /\ AuxOff
    /\ s_state = Empty /\ s_update_queue = <<>> /\ s_render_semaphore = 0
    /\ s_animate_queue = 0 /\ s_rendering = FALSE
    /\ s_call = [c \in Callers |-> IdleCall]
    /\ c_element_state = Empty /\ c_event_handlers = Empty /\ c_mounted = {}
    /\ c_tasks = <<>> /\ c_queue = <<>>
    /\ trig = IdleTrig

NextEffect ==
    \/ EffectRenderStart
    \/ \E args \in ArgsSet, value \in Values : EffectBodyCall(args, value)
    \/ EffectRenderEnd
    \/ EffectUnmount
    \/ \E future \in 1..MaxFutures, outcome \in {"done", "failed", "cancelled"} :
          TaskFinish(future, outcome)

SpecEffect == InitEffect /\ [][NextEffect]_vars

\* ======================================================================
\* Properties of the semaphore-based Layout
\* ======================================================================
\* A render() call that has been accepted and has not finished
SemInFlight(c) == s_call[c].pc \in {"acquire", "gather", "render"}
NoDuplicates(q) == \A i, j \in DOMAIN q : q[i] = q[j] => i = j
IsPrefix(a, b) == Len(a) <= Len(b) /\ SubSeq(b, 1, Len(a)) = a

\* C1: a render() call made while another render() call is in flight (blocked
\* on the semaphore, gathering callbacks, or suspended in an element's
\* render) ends at once with RuntimeError: it does not wait, it performs no
\* pass, and the layout's state and the other call are as they were.
C1_ReentrantRenderRaises ==
    [][\A c \in Callers :
          (/\ s_call[c].pc = "idle"
           /\ s_call'[c].pc # "idle"
           /\ \E d \in Callers \ {c} : SemInFlight(d))
          => /\ s_call'[c].pc = "done"
             /\ s_call'[c].result = "RuntimeError"
             /\ s_call'[c].new = {} /\ s_call'[c].roots = <<>>
             /\ UNCHANGED <<s_state, s_update_queue, s_render_semaphore,
                            s_animate_queue, s_rendering>>
             /\ \A d \in Callers \ {c} : s_call'[d] = s_call[d]]_vars

C1_Witness ==
    \E c, d \in Callers :
        /\ s_call[c].pc = "done" /\ s_call[c].result = "RuntimeError"
        /\ s_call[d].pc = "render" /\ s_call[d].stack # <<>>

\* C3: a render() call renders every element the update queue holds when
\* its pass takes them, those queued before the call began included: when
\* the elements taken have a record at that moment, and unless an element
\* fails to render (RenderError), the call returns a result whose roots are
\* the elements taken, in order, with a model in new for each.
C3_PassRendersAllQueued ==
    \A c \in Callers :
        (/\ s_call[c].pc = "done" /\ s_call[c].ui > 0
         /\ Range(s_call[c].updates) \subseteq s_call[c].current
         /\ s_call[c].result # "RenderError")
        => /\ s_call[c].result = "ok"
           /\ IsPrefix(s_call[c].q_at_call, s_call[c].updates)
           /\ s_call[c].roots = s_call[c].updates
           /\ Range(s_call[c].updates) \subseteq s_call[c].new

\* C4: an element passed to update() more than once before the pass is
\* rendered once in it: the roots of the result do not repeat an element.
C4_RootsWithoutDuplicates ==
    \A c \in Callers :
        (s_call[c].pc = "done" /\ s_call[c].result = "ok")
        => NoDuplicates(s_call[c].roots)

\* C5: when the update queue is not empty and no render() call is in
\* flight, a render() call proceeds without a further update(): the flag
\* does not refuse it and the semaphore does not block it.
C5_QueuedUpdateLetsRenderProceed ==
    (s_update_queue # <<>> /\ \A c \in Callers : s_call[c].pc = "idle")
    => (~s_rendering /\ s_render_semaphore > 0)

\* C6: when render() raises RenderError the layout is left usable: the
\* flag that refuses a render() call has been cleared.
C6_UsableAfterRenderError ==
    \A c \in Callers :
        (s_call[c].pc = "done" /\ s_call[c].result = "RenderError")
        => ~s_rendering

\* ======================================================================
\* Properties of the core Layout
\* ======================================================================
\* The step in which task i ends and its future enters the queue
CoreTaskEnds(i) ==
    /\ Len(c_queue') = Len(c_queue) + 1
    /\ c_tasks' = RemoveAt(c_tasks, i)
LastOutcome == c_queue'[Len(c_queue')]

\* C2: at most one render pass is executing at any time: no two _render
\* tasks are part-way through their walk together.
C2_OnePassAtATime ==
    Cardinality({i \in DOMAIN c_tasks : c_tasks[i].pc = "render"}) <= 1

\* C7: a pass that fails in an element's render or in the walk ends with a
\* RenderError whose partial_render has in new exactly the models produced
\* before the failure and in old exactly the ids with a record when the pass
\* started and none at the failure; a pass that has entered a render
\* operation ends with a result or a RenderError, nothing else.
C7_PartialRender ==
    [][\A i \in DOMAIN c_tasks :
          CoreTaskEnds(i)
          => LET o == LastOutcome
                 cur == IF c_tasks[i].pc = "created" THEN DOMAIN c_element_state
                        ELSE c_tasks[i].current
             IN  /\ o.kind = "RenderError"
                    => /\ o.new = o.loaded
                       /\ o.old = cur \ DOMAIN c_element_state'
                 /\ c_tasks[i].pc = "render" => o.kind \in {"ok", "RenderError"}
                 /\ o.kind \notin {"ok", "RenderError"}
                    => /\ c_tasks[i].pc = "created"
                       /\ core_element_parent_fails(c_element_state, c_tasks[i].elem)]_vars

C7_Witness ==
    \E i \in DOMAIN c_queue :
        /\ c_queue[i].kind = "RenderError"
        /\ c_queue[i].new # {}
        /\ c_queue[i].old # {}

\* The target of a trigger() / apply() call is registered
Registered(target, key) ==
    IF layout = "sem"
    THEN target \in DOMAIN s_state /\ key \in DOMAIN s_state[target].event_handlers
    ELSE target \in DOMAIN c_event_handlers

\* C8: trigger() / apply() with a target that is not registered returns
\* without raising and without calling a handler, and leaves the element
\* records, the handler registry and the queues as they were.
C8_StaleTriggerIgnored ==
    /\ [][(trig.pc = "idle" /\ trig'.pc # "idle" /\ ~Registered(trig'.target, trig'.key))
          => /\ trig'.pc = "ignored"
             /\ trig'.calls = <<>>
             /\ ~trig'.raised
             /\ UNCHANGED <<semvars, corevars>>]_vars
    /\ [][trig.pc = "ignored" => (trig' = IdleTrig /\ UNCHANGED <<semvars, corevars>>)]_vars

C8_Witness ==
    /\ layout = "core"
    /\ trig.pc = "ignored"
    /\ c_event_handlers # Empty
    /\ c_element_state # Empty

\* C9: once a pass has rendered a model that carries handler h, so that h's
\* id is in the record of an element, a trigger() whose target is that id
\* calls h, exactly once, and awaits it.
C9_TriggerCallsCarriedHandler ==
    [][(/\ layout = "core"
        /\ trig.pc = "idle" /\ trig'.pc # "idle"
        /\ \E e \in DOMAIN c_element_state :
               trig'.target \in Range(c_element_state[e].event_handlers))
       => /\ trig'.pc = "handler"
          /\ Len(trig'.calls) = 1
          /\ core_handler_id(trig'.calls[1]) = trig'.target]_vars

\* C10: when a pass ends with an update, the elements that were below its
\* element when it began and that it has not rendered again are in old and
\* have no record, and the handler ids they owned that the pass has not
\* registered again are not in the registry.
C10_DroppedChildrenDeleted ==
    [][\A i \in DOMAIN c_tasks :
          (CoreTaskEnds(i) /\ LastOutcome.kind = "ok")
          => LET o == LastOutcome
                 gone == o.below \ o.new
             IN  /\ gone \subseteq o.old
                 /\ gone \cap DOMAIN c_element_state' = {}
                 /\ (o.owned \ o.registered) \cap DOMAIN c_event_handlers' = {}]_vars

\* ======================================================================
\* Properties of the hooks
\* ======================================================================
\* C12: across the renders of one mounted element whose body calls its hooks
\* in the same order, LifeCycleHook.use_state calls the factory only in the
\* first render, once per hook call, adding one slot each time; in every
\* later render the k-th call returns the object the k-th call returned in
\* the first render, and the number of slots does not change once the first
\* render has completed.
C12_SlotsMadeInFirstRenderOnly ==
    layout = "hook" =>
      /\ ~h_hook.rendered_atleast_once =>
            /\ h_log.made = Len(h_render.ret)
            /\ Len(h_hook.state) = Len(h_render.ret)
      /\ h_hook.rendered_atleast_once =>
            /\ h_log.made = Len(h_render.first)
            /\ Len(h_hook.state) = Len(h_render.first)
            /\ Len(h_render.first) = Len(app.body)
            /\ \A k \in DOMAIN h_render.ret :
                  k \in DOMAIN h_render.first /\ h_render.ret[k] = h_render.first[k]
      /\ \A j, k \in DOMAIN h_render.ret : j # k => h_render.ret[j] # h_render.ret[k]

\* A later render has made all the hook calls of a body that makes two
C12_Witness ==
    /\ layout = "hook"
    /\ h_hook.rendered_atleast_once
    /\ h_render.pc = "body"
    /\ Len(h_render.ret) = 2

\* The set_state, dispatch or schedule_render call this step makes
HookCalls(kind) == h_log.call = NoCall /\ h_log'.call.kind = kind

\* The value stored in the _State object of the latest use_state call
Stored == h_objs[h_render.closure.state]

\* C13: when a use_state setter is called several times before the next
\* render, every call stores the value it is given, so that the stored value
\* (which the next render observes) is the value of the last call, also when
\* the last call passes the value the previous render observed.
C13_LastSetterCallIsStored ==
    (layout = "hook" /\ h_render.pc = "idle" /\ h_log.call.kind = "set") =>
        Stored = h_log.call.arg

\* C14: a callable updater given to a use_state setter is applied to the
\* value stored in the slot at the time of the call, not to the value the
\* last render captured, and use_reducer's dispatch applies the reducer to
\* the stored state in the same way.
C14_UpdaterAppliedToStoredValue ==
    [][h_render.pc = "idle" =>
         /\ HookCalls("updater") => Stored' = Updater(h_log'.call.arg, Stored)
         /\ HookCalls("dispatch") => Stored' = reducer(Stored, h_log'.call.arg)]_vars

\* C15: a use_state setter call whose next value is the value that is stored
\* changes nothing: the stored state and every scheduling flag of the hook
\* stay as they are and the scheduling callback is not invoked.
C15_UnchangedValueIsNoOp ==
    [][(HookCalls("set") /\ h_log'.call.arg = Stored) =>
          /\ UNCHANGED <<h_hook, h_objs>>
          /\ h_log'.calls = h_log.calls]_vars

\* C16: however many times the setters or schedule_render() are called on a
\* hook between two consecutive renders of its element, the scheduling
\* callback is invoked at most once from the start of one render to the
\* start of the next.
C16_AtMostOneCallbackPerInterval ==
    layout = "hook" => Len(h_log.calls) <= 1

\* The callback was invoked when a render with a deferred request ended, and
\* a setter call that stored a changed value since then has not invoked it
\* again
C16_Witness ==
    /\ layout = "hook"
    /\ h_render.pc = "idle"
    /\ h_hook.schedule_render_later
    /\ h_log.call.kind = "set"
    /\ h_log.call.arg # h_render.closure.current
    /\ h_log.calls = <<Element>>

\* C17: schedule_render() called while the element is rendering does not
\* invoke the scheduling callback during that render: the request is deferred
\* and the callback is invoked once, by element_did_render.  Called while the
\* element is not rendering and no render is scheduled, it invokes the
\* callback at once, with the hook's element.
C17_DeferredWhileRendering ==
    [][layout = "hook" =>
         /\ h_hook'.is_rendering => h_log'.calls = <<>>
         /\ (HookCalls("schedule_render") /\ h_hook.is_rendering) =>
               /\ h_hook'.schedule_render_later
               /\ h_hook'.is_rendering
         /\ (h_hook.is_rendering /\ ~h_hook'.is_rendering /\ h_hook.schedule_render_later) =>
               /\ h_log'.calls = <<h_hook.element>>
               /\ h_hook'.render_is_scheduled
         /\ (HookCalls("schedule_render") /\ ~h_hook.is_rendering
                                          /\ ~h_hook.render_is_scheduled) =>
               /\ h_log'.calls = Append(h_log.calls, h_hook.element)
               /\ h_hook'.render_is_scheduled]_vars

\* schedule_render() has been called during the first render and has been deferred
C17_Witness ==
    /\ layout = "hook"
    /\ h_log.call.kind = "schedule_render"
    /\ h_hook.is_rendering
    /\ ~h_hook.rendered_atleast_once
    /\ h_hook.schedule_render_later
    /\ h_log.calls = <<>>

\* C18: a hook function called where no LifeCycleHook is current (before any
\* set_current, or after the matching unset_current) raises the RuntimeError
\* of current_hook() and changes the state of no hook.
C18_NoCurrentHookRaises ==
    [][\A fn \in {"use_state", "use_memo", "use_update"} :
          (HookCalls(fn) /\ Thread \notin DOMAIN h_current) =>
              /\ h_log'.call.raised
              /\ UNCHANGED <<h_hook, h_objs, h_current, h_render>>
              /\ h_log'.made = h_log.made /\ h_log'.calls = h_log.calls]_vars

\* use_state has been called after a render has unset the hook, and has raised
C18_Witness ==
    /\ layout = "hook"
    /\ h_hook.rendered_atleast_once
    /\ h_render.pc = "idle"
    /\ h_log.call.kind = "use_state"
    /\ h_log.call.raised

\* C20: an effect registered with LifeCycleHook.use_effect for an event runs
\* when that event next fires and is then cleared: each firing of an event
\* runs exactly the effects registered for it since its last firing, once per
\* registration.
C20_EffectRunsAtNextFiring ==
    (layout = "hook" /\ h_log.event # "none") => h_log.ran = h_log.due

\* ======================================================================
\* Properties of the core Layout: the life cycle of the elements
\* ======================================================================
\* C19: for every element, the core Layout's calls of mount and unmount
\* alternate, beginning with mount: mount is called when the element gains a
\* state record and not again while it keeps it (also when the element is
\* rendered again in place), and unmount is called once when it is removed.
\* Stated for the element of a pass, in an application that lets update()
\* make a pass only when the one before has been delivered.
C19_MountUnmountAlternate ==
    (layout = "core" /\ app.tasks = 1 /\ Len(c_tasks) = 1) =>
        c_tasks[1].elem \notin c_tasks[1].out_of_turn

\* ======================================================================
\* The core Layout rendering an element that uses use_state
\* ======================================================================
\* The root is a component whose body calls use_state(0) and returns a model
\* that shows the state and carries one event handler; the handler calls the
\* set_state of the render that made the model.  The element keeps its hook
\* for as long as it is in the tree, and the hook's scheduling callback is
\* the layout's update.  The frontend sends an event when it has been given
\* every finished render.
WiredApps == {[elems |-> {Root}, handlers |-> {1}, tasks |-> 2,
               body |-> <<"use_state">>, effects |-> {}]}

\* Element.render() of the component: the phases around the body
element_render(X) ==
    LET X1 == element_will_render(set_current(X))
        X2 == use_state(X1, 0)
        X3 == unset_current(element_did_render(X2))
    IN  IF X2.err # "" THEN X2 ELSE [X3 EXCEPT !.ret = X2.ret]

\* The LayoutUpdate of a pass, with the state its model was computed from
WithModel(outcome, value) ==
    [f \in DOMAIN outcome \cup {"model"} |->
        IF f = "model" THEN value ELSE outcome[f]]

\* The tasks of the update(element) calls the scheduling callback has made
RECURSIVE NewTasks(_)
NewTasks(elements) ==
    IF elements = <<>> THEN <<>>
    ELSE <<NewTask(Head(elements))>> \o NewTasks(Tail(elements))

\* The callback invocations of one step: those logged beyond the ones before
Invoked(X) == SubSeq(X.log.calls, Len(h_log.calls) + 1, Len(X.log.calls))

\* The application calls update(root)
WiredUpdate ==
    /\ layout = "wired"
    /\ ~Returning
    /\ Len(c_tasks) + Len(c_queue) < app.tasks
    /\ c_tasks' = Append(c_tasks, NewTask(Root))
    /\ UNCHANGED <<hookvars, auxvars, layout, app, semvars, c_element_state, c_event_handlers,
                   c_mounted, c_queue, trig>>

\* The event loop starts a _render task
WiredTaskStart(i) ==
    /\ layout = "wired"
    /\ ~Returning
    /\ c_tasks[i].pc = "created"
    /\ \A j \in 1..(i - 1) : c_tasks[j].pc # "created"
    /\ CoreCommit(i, core_render(CoreY(i), FALSE))
    /\ UNCHANGED <<hookvars, auxvars, layout, app, semvars, trig>>

\* element.render() runs and returns the model, and _render loads it and ends
WiredTaskResume(i) ==
    /\ layout = "wired"
    /\ ~Returning
    /\ c_tasks[i].pc = "render"
    /\ LET X == element_render(HookX)
           out == [children |-> <<>>, handlers |-> SetToSeq(app.handlers, FALSE),
                   raises |-> FALSE]
           Y == core_render_element_resume(CoreY(i), out, FALSE)
       IN  /\ X.err = ""
           /\ Y.fin
           /\ HookCommit([X EXCEPT !.log.calls = <<>>])
           /\ h_render' = [h_render EXCEPT !.closure = X.ret, !.saw = X.ret.current]
           /\ c_element_state' = Y.st
           /\ c_event_handlers' = Y.reg
           /\ c_mounted' = Y.mounted
           /\ c_tasks' = RemoveAt(c_tasks, i) \o NewTasks(Invoked(X))
           /\ c_queue' = Append(c_queue, WithModel(Y.outcome, X.ret.current))
    /\ UNCHANGED <<auxvars, layout, app, semvars, trig>>

\* render() returns the oldest finished pass
WiredRender ==
    /\ layout = "wired"
    /\ ~Returning
    /\ c_queue # <<>>
    /\ c_queue' = Tail(c_queue)
    /\ h_log' = [h_log EXCEPT !.call = NoCall]
    /\ UNCHANGED <<auxvars, layout, app, semvars, c_element_state, c_event_handlers, c_mounted,
                   c_tasks, trig, h_hook, h_objs, h_current, h_futures, h_caches,
                   h_render>>

\* The frontend sends an event for a handler of the model it has: trigger()
\* awaits the handler, which calls set_state(new) and completes.  The log
\* keeps the last call that gave a value other than the stored one.
WiredTrigger(target, new) ==
    /\ layout = "wired"
    /\ ~Returning
    /\ trig.pc = "idle"
    /\ c_queue = <<>>
    /\ LET called == core_trigger(c_event_handlers, target)
           X == set_state(HookX, h_render.closure, FALSE, new)
       IN  IF called.pc = "handler"
           THEN /\ HookCommit([X EXCEPT !.log.call =
                       IF new # Stored
                       THEN [kind |-> "set", arg |-> new, raised |-> FALSE]
                       ELSE h_log.call])
                /\ c_tasks' = c_tasks \o NewTasks(Invoked(X))
                /\ trig' = IdleTrig
           ELSE /\ trig' = called
                /\ UNCHANGED <<h_hook, h_objs, h_current, h_futures, h_caches, h_log,
                               c_tasks>>
    /\ UNCHANGED <<auxvars, layout, app, semvars, c_element_state, c_event_handlers, c_mounted,
                   c_queue, h_render>>

InitWired ==
    /\ layout = "wired"
    /\ app \in WiredApps
    /\ c_element_state = Empty
    /\ c_event_handlers = Empty
    /\ c_mounted = {}
    /\ c_tasks = <<NewTask(Root)>>
    /\ c_queue = <<>>
    /\ trig = IdleTrig
    /\ HookOff
    /\ AuxOff
    /\ s_state = Empty /\ s_update_queue = <<>> /\ s_render_semaphore = 0
    /\ s_animate_queue = 0 /\ s_rendering = FALSE
    /\ s_call = [c \in Callers |-> IdleCall]

NextWired ==
    \/ WiredUpdate
    \/ \E i \in DOMAIN c_tasks : WiredTaskStart(i)
    \/ \E i \in DOMAIN c_tasks : WiredTaskResume(i)
    \/ WiredRender
    \/ \E h \in app.handlers, new \in Values : WiredTrigger(h, new)
    \/ TriggerReturn

SpecWired == InitWired /\ [][NextWired]_vars

\* C11: when an event handler invoked through trigger() calls a use_state
\* setter with a changed value, the owning element is scheduled with the
\* layout, and the next result of render() after the handler has completed
\* has the element's id in new, with a model computed from the new value.
\* Stated for a render() that returns a LayoutUpdate.
C11_HandlerSetStateIsRendered ==
    [][(layout = "wired" /\ h_log.call.kind = "set"
          /\ c_queue # <<>> /\ c_queue' = Tail(c_queue)
          /\ Head(c_queue).kind = "ok") =>
            /\ h_hook.element \in Head(c_queue).new
            /\ Head(c_queue).model = h_log.call.arg]_vars

\* ======================================================================
\* Properties of use_effect and use_memo
\* ======================================================================
\* C21: the task of an asynchronous use_effect function is created only when
\* did_render fires, never while the body runs; the clean registered for it,
\* when it runs at the next will_render or at will_unmount, cancels the task
\* if it is still pending; and once the element has been unmounted none of
\* its effect tasks is pending without having been told to cancel.
C21_TaskCreatedAtDidRender ==
    [][(layout = "effect" /\ Len(h_futures') > Len(h_futures)) =>
          h_log'.event = "did_render"]_vars

C21_CleanCancelsPendingTask ==
    [][layout = "effect" =>
          \A j \in DOMAIN h_futures :
              (h_futures[j] = "pending" /\ Closure("clean", "", j) \in Range(h_log'.ran)) =>
                  h_futures'[j] = "cancelling"]_vars

C21_NoPendingTaskAfterUnmount ==
    (layout = "effect" /\ h_render.pc = "unmounted") =>
        \A j \in DOMAIN h_futures : h_futures[j] # "pending"

\* C22: an exception raised inside the task of an asynchronous effect is not
\* raised when it occurs; it is raised by the effect's clean, at the next
\* will_render or at will_unmount, exactly once: it is not raised again at a
\* later render or unmount once it has been surfaced.
C22_ErrorSurfacedOnce ==
    layout = "effect" =>
        \A j \in DOMAIN h_futures :
            /\ h_log.surfaced[j] <= 1
            /\ h_log.surfaced[j] > 0 => h_futures[j] = "failed"

\* C23: a synchronous use_effect function is invoked when did_render fires,
\* and when it returns a cleanup callable, that callable is registered for
\* will_render and will_unmount, to be invoked at the next of them.
C23_ReturnedCleanupIsRegistered ==
    [][(layout = "effect" /\ h_log'.event = "did_render"
          /\ Closure("effect", "returns", 0) \in Range(h_hook.event_effects.did_render)) =>
            /\ Closure("effect", "returns", 0) \in Range(h_log'.ran)
            /\ Closure("cleanup", "returns", 0) \in Range(h_hook'.event_effects.will_render)
            /\ Closure("cleanup", "returns", 0) \in Range(h_hook'.event_effects.will_unmount)]_vars

\* C24: use_memo with non-empty args calls the function only when the key
\* hash(tuple(args)) differs from the key of the value that the previous
\* computation has cached, and otherwise returns the cached value without
\* calling it; with empty args it calls the function in every render; the
\* cache never holds more than one entry.
C24_MemoCallsFunctionOnNewKey ==
    [][(layout = "effect" /\ h_log'.call.kind = "use_memo") =>
          LET args == h_render'.args
              cache == h_render'.ret[Len(h_render'.ret)]
              called == \E i \in DOMAIN h_log'.ran : h_log'.ran[i].kind = "lambda"
              fresh == cache \notin DOMAIN h_log.keys \/ h_log.keys[cache] # hash(args)
          IN  /\ args = <<>> => called
              /\ args # <<>> => (called <=> fresh)
              /\ (args # <<>> /\ ~called) => h_log'.call.arg = h_caches[cache][hash(args)]
              /\ cache \in DOMAIN h_caches' => Cardinality(DOMAIN h_caches'[cache]) <= 1]_vars

\* A render after the first calls use_memo with the args of a cached value,
\* once with equal args and once with other args of the same hash
C24_Witness ==
    /\ layout = "effect"
    /\ h_hook.rendered_atleast_once
    /\ h_log.call.kind = "use_memo"
    /\ h_render.args # <<>>
    /\ h_log.ran = <<>>

C24_WitnessCollision ==
    /\ C24_Witness
    /\ h_render.args = <<0 - 1>>
    /\ \E c \in DOMAIN h_caches : DOMAIN h_caches[c] = {0 - 2}

\* ======================================================================
\* Loading a model: _load_model and _load_model_children of both layouts
\* ======================================================================
\* A child of a model is an Element, a mapping (a node, which may have
\* children of its own: a list of them, or one value that is not a list) or
\* another Python value, given by its repr.  The model of an element is a
\* mapping.  has says that the mapping has a "children" entry, listed that
\* the entry is a list or a tuple; an entry that is not is kept as the list
\* of that one value.
Child(is, id, repr, has, listed, children) ==
    [is |-> is, id |-> id, repr |-> repr, has |-> has, listed |-> listed,
     children |-> children]
ElementChild(e) == Child("element", e, "", FALSE, FALSE, <<>>)
ValueChild(repr) == Child("value", 0, repr, FALSE, FALSE, <<>>)
MappingNode(has, listed, children) == Child("mapping", 0, "", has, listed, children)
Leaves == {ElementChild(e) : e \in {1, 2}} \cup {ValueChild(r) : r \in {"'text'", "7"}}
ChildLists(S) == {<<>>} \cup {<<a>> : a \in S} \cup {<<a, b>> : a \in S, b \in S}
MappingsOver(S) ==
    {MappingNode(FALSE, FALSE, <<>>)}
        \cup {MappingNode(TRUE, TRUE, cs) : cs \in ChildLists(S)}
        \cup {MappingNode(TRUE, FALSE, <<c>>) : c \in S}
RawModels ==
    MappingsOver(Leaves \cup MappingsOver(Leaves))
        \cup {MappingNode(TRUE, TRUE, <<a, b, c>>) : a \in Leaves, b \in Leaves, c \in Leaves}

\* str(child) of a value given by its repr
str(repr) == IF repr = "'text'" THEN "text" ELSE repr

\* A _load_model_children that has no case for mappings
load_child_NoMapping(child) ==
    IF child.is = "element" THEN [type |-> "ref", data |-> [id |-> child.id]]
    ELSE [type |-> "str", data |-> [str |-> "{...}"]]

\* _load_model and _load_model_children, without the event handlers
RECURSIVE load_model(_)
RECURSIVE load_model_children(_)
RECURSIVE load_child(_)
load_child(child) ==
    CASE child.is = "mapping" -> [type |-> "obj", data |-> load_model(child)]
      [] child.is = "element" -> [type |-> "ref", data |-> [id |-> child.id]]
      [] OTHER -> [type |-> "str", data |-> [str |-> str(child.repr)]]
load_model_children(children) ==
    IF children = <<>> THEN <<>>
    ELSE <<load_child(Head(children))>> \o load_model_children(Tail(children))
load_model(model) ==
    [has |-> model.has,
     children |-> IF ~model.has THEN <<>>
                  ELSE IF model.listed THEN load_model_children(model.children)
                  ELSE load_model_children(<<model.children[1]>>)]

\* _render_model yields the loaded model of the element
Load ==
    /\ layout = "load"
    /\ m_loaded = <<>>
    /\ m_loaded' = <<load_model(app.model)>>
    /\ UNCHANGED <<layout, app, semvars, corevars, trig, hookvars, q_futures, q_queue,
                   q_calls, q_log, x_renders>>

InitLoad ==
    /\ layout = "load"
    /\ app \in [model : RawModels]
    /\ HookOff
    /\ AuxOff
    /\ s_state = Empty /\ s_update_queue = <<>> /\ s_render_semaphore = 0
    /\ s_animate_queue = 0 /\ s_rendering = FALSE
    /\ s_call = [c \in Callers |-> IdleCall]
    /\ c_element_state = Empty /\ c_event_handlers = Empty /\ c_mounted = {}
    /\ c_tasks = <<>> /\ c_queue = <<>>
    /\ trig = IdleTrig

NextLoad == Load

SpecLoad == InitLoad /\ [][NextLoad]_vars

\* The children of a node as a list
ChildrenOf(node) == IF node.has THEN node.children ELSE <<>>

\* loaded is the wire form of node: item for item, in order, a mapping child
\* is an obj item with the wire form of the child, an Element child a ref
\* item with its id, any other child a str item with its string form
RECURSIVE IsWireFormOf(_, _)
IsWireFormOf(loaded, node) ==
    /\ Len(loaded.children) = Len(ChildrenOf(node))
    /\ \A i \in DOMAIN loaded.children :
          LET child == ChildrenOf(node)[i]
              item == loaded.children[i]
          IN  CASE child.is = "mapping" ->
                      item.type = "obj" /\ IsWireFormOf(item.data, child)
                [] child.is = "element" ->
                      item = [type |-> "ref", data |-> [id |-> child.id]]
                [] OTHER ->
                      item = [type |-> "str", data |-> [str |-> str(child.repr)]]

\* C25: loading a model converts its children, in order and one for one,
\* into tagged wire items: a mapping child becomes an obj item with the
\* loaded node, an Element child a ref item with the element's id, any other
\* value a str item with its string form, at every nesting depth.
C25_ChildrenBecomeWireItems ==
    (layout = "load" /\ m_loaded # <<>>) => IsWireFormOf(m_loaded[1], app.model)

\* The model with the children [A, "text", B] has been loaded, and a model
\* with a nested mapping that has an Element child
C25_Witness ==
    /\ layout = "load"
    /\ app.model = MappingNode(TRUE, TRUE,
                      <<ElementChild(1), ValueChild("'text'"), ElementChild(2)>>)
    /\ m_loaded = <<[has |-> TRUE,
                     children |-> <<[type |-> "ref", data |-> [id |-> 1]],
                                    [type |-> "str", data |-> [str |-> "text"]],
                                    [type |-> "ref", data |-> [id |-> 2]]>>]>>

C25_WitnessNested ==
    /\ layout = "load"
    /\ m_loaded # <<>>
    /\ \E i \in DOMAIN m_loaded[1].children :
          /\ m_loaded[1].children[i].type = "obj"
          /\ \E j \in DOMAIN m_loaded[1].children[i].data.children :
                m_loaded[1].children[i].data.children[j].type = "ref"

\* ======================================================================
\* The current hook of concurrent renders: src/idom/core/hooks.py
\* ======================================================================
\* Three elements are rendered in three execution contexts: two tasks of
\* the event loop of thread 1, which interleave where a render awaits, and a
\* task of the event loop of thread 2.  Each element has its own hook.  A
\* step is what a context does between two of its suspension points.
Contexts == {1, 2, 3}
ThreadOf == <<1, 1, 2>>
HookOf == <<"hook1", "hook2", "hook3">>

\* The render of a context: pc is "idle" | "body", saw what current_hook()
\* last returned to the body ("RuntimeError" when it raised), err the
\* exception of its last unset_current ("" for none)
IdleContext == [pc |-> "idle", saw |-> "", err |-> ""]

CtxX(c) ==
    [dict |-> h_current, thread |-> ThreadOf[c], self |-> HookOf[c],
     ret |-> "", err |-> ""]

\* Element.render begins in context c: set_current, up to the first await
CtxRenderStart(c) ==
    /\ layout = "contexts"
    /\ x_renders[c].pc = "idle"
    /\ h_current' = set_current(CtxX(c)).dict
    /\ x_renders' = [x_renders EXCEPT ![c] = [pc |-> "body", saw |-> "", err |-> ""]]
    /\ UNCHANGED <<layout, app, semvars, corevars, trig, h_hook, h_objs, h_futures,
                   h_caches, h_render, h_log, m_loaded, q_futures, q_queue, q_calls, q_log>>

\* The body of the render of context c calls a hook function: current_hook()
CtxCurrentHook(c) ==
    /\ layout = "contexts"
    /\ x_renders[c].pc = "body"
    /\ LET X == current_hook(CtxX(c))
       IN  x_renders' = [x_renders EXCEPT ![c].saw = IF X.err # "" THEN X.err ELSE X.ret]
    /\ UNCHANGED <<layout, app, semvars, corevars, trig, hookvars, m_loaded, q_futures,
                   q_queue, q_calls, q_log>>

\* The body of the render of context c has returned: unset_current
CtxRenderEnd(c) ==
    /\ layout = "contexts"
    /\ x_renders[c].pc = "body"
    /\ LET X == unset_current(CtxX(c))
       IN  /\ h_current' = X.dict
           /\ x_renders' = [x_renders EXCEPT ![c].pc = "idle", ![c].err = X.err]
    /\ UNCHANGED <<layout, app, semvars, corevars, trig, h_hook, h_objs, h_futures,
                   h_caches, h_render, h_log, m_loaded, q_futures, q_queue, q_calls, q_log>>

InitContexts ==
    /\ layout = "contexts"
    /\ app = [contexts |-> Contexts]
    /\ h_hook = NewHook /\ h_objs = Empty /\ h_current = Empty /\ h_futures = <<>>
    /\ h_caches = Empty /\ h_render = IdleRender /\ h_log = NewLog
    /\ m_loaded = <<>> /\ q_futures = <<>> /\ q_queue = <<>> /\ q_calls = <<>>
    /\ q_log = <<>>
    /\ x_renders = [c \in Contexts |-> IdleContext]
    /\ s_state = Empty /\ s_update_queue = <<>> /\ s_render_semaphore = 0
    /\ s_animate_queue = 0 /\ s_rendering = FALSE
    /\ s_call = [c \in Callers |-> IdleCall]
    /\ c_element_state = Empty /\ c_event_handlers = Empty /\ c_mounted = {}
    /\ c_tasks = <<>> /\ c_queue = <<>>
    /\ trig = IdleTrig

NextContexts ==
    \/ \E c \in Contexts : CtxRenderStart(c)
    \/ \E c \in Contexts : CtxCurrentHook(c)
    \/ \E c \in Contexts : CtxRenderEnd(c)

SpecContexts == InitContexts /\ [][NextContexts]_vars

\* C26: while the hook of a render is current and not yet unset,
\* current_hook() called from that render's execution context returns that
\* hook, whatever the renders of the other execution contexts (another
\* thread, or another task at a suspension point) set and unset in between;
\* and unset_current never fails.
C26_CurrentHookIsOwnHook ==
    layout = "contexts" =>
        \A c \in Contexts :
            /\ x_renders[c].saw \in {"", HookOf[c]}
            /\ x_renders[c].err = ""

\* The same for the render that has its thread to itself
C26_OtherThreadIsNotSeen ==
    layout = "contexts" =>
        x_renders[3].saw \in {"", HookOf[3]} /\ x_renders[3].err = ""

\* ======================================================================
\* Properties of the core Layout: the element-state map and the update
\* ======================================================================
\* The records form a tree rooted at the root id
IsTree(st) ==
    /\ \A p \in DOMAIN st : \A x \in st[p].inner_elements :
          x \in DOMAIN st /\ st[x].parent = p
    /\ \A x \in DOMAIN st \ {Root} :
          st[x].parent \in DOMAIN st /\ x \in st[st[x].parent].inner_elements
    /\ Root \in DOMAIN st => st[Root].parent = None

\* C27: after every completed pass of the core Layout, succeeded or failed,
\* the element-state map is a tree rooted at the root id: every id in a
\* record's inner_elements has its own record whose parent is that record's
\* id, every record but the root's has a parent that has a record and lists
\* it, and the root's parent is none.
C27_StateIsTreeAfterPass ==
    [][(layout = "core" /\ Len(c_queue') > Len(c_queue)) => IsTree(c_element_state')]_vars

\* The same for the application that lets update() make a pass only when the
\* one before has been delivered
C27_StateIsTreeAfterLonePass ==
    [][(layout = "core" /\ app.tasks = 1 /\ Len(c_queue') > Len(c_queue)) =>
          IsTree(c_element_state')]_vars

\* A pass of the application that lets update() make a pass only when the one
\* before has been delivered: the ids that had a record when it started
PassStarted ==
    IF c_tasks[1].pc = "created" THEN DOMAIN c_element_state ELSE c_tasks[1].current

\* C28: for a pass that does not interleave with another one, old of the
\* returned LayoutUpdate is exactly the set of ids that had a record when the
\* pass started and have none when it ends: an id whose record was deleted
\* and recreated in the pass is not in old, and no id is both in old and a
\* key of new.
C28_OldIsDeletedIds ==
    [][(layout = "core" /\ app.tasks = 1) =>
          /\ (c_tasks # <<>> /\ c_tasks' # <<>> /\ c_tasks[1].pc = "created"
                /\ c_tasks'[1].pc = "render") =>
                c_tasks'[1].current = DOMAIN c_element_state
          /\ (Len(c_queue') > Len(c_queue) /\ LastOutcome.kind = "ok") =>
                /\ LastOutcome.old = PassStarted \ DOMAIN c_element_state'
                /\ LastOutcome.old \cap LastOutcome.new = {}]_vars

\* The first part alone: old is what had a record at the start and has none
\* at the end, so that an id deleted and recreated in the pass is not in it
C28_OldIsStartedNotEnded ==
    [][(layout = "core" /\ app.tasks = 1) =>
          /\ (c_tasks # <<>> /\ c_tasks' # <<>> /\ c_tasks[1].pc = "created"
                /\ c_tasks'[1].pc = "render") =>
                c_tasks'[1].current = DOMAIN c_element_state
          /\ (Len(c_queue') > Len(c_queue) /\ LastOutcome.kind = "ok") =>
                LastOutcome.old = PassStarted \ DOMAIN c_element_state']_vars

\* ======================================================================
\* FutureQueue: src/idom/core/layout.py, lines 297-322
\* ======================================================================
\* The futures put() has made, in the order of the calls, the asyncio.Queue
\* of finished futures, the get() calls, and a log of the completions and of
\* the deliveries.  An awaitable completes with a result or with an
\* exception; which, and when, is for the application to say.
Results == {1, 2}
Failure == 0 - 1
Done(state, result) == [state |-> state, result |-> result]
PendingFuture == Done("pending", None)
AwaitableOutcomes == {Done("ok", r) : r \in Results} \cup {Done("failed", Failure)}
Event(ev, future, call) == [ev |-> ev, future |-> future, call |-> call]
Call(pc, future, result) == [pc |-> pc, future |-> future, result |-> result]

\* Q = [futures, queue, calls, log]
\* put(awaitable) that puts the future in the queue at once
put_AtOnce(Q) ==
    [Q EXCEPT !.futures = Append(@, PendingFuture),
              !.queue = Append(@, Len(Q.futures) + 1)]

\* put(awaitable): future = asyncio.ensure_future(wrapper())
put(Q) == [Q EXCEPT !.futures = Append(@, PendingFuture)]

\* get(), "return await future" of call c: a finished future gives its result
\* or raises its exception without suspending, another one suspends the call
await_future(Q, c, i) ==
    LET f == Q.futures[i]
    IN  IF f.state = "pending"
        THEN [Q EXCEPT !.calls[c] = Call("awaiting", i, None)]
        ELSE [Q EXCEPT !.calls[c] = Call(IF f.state = "ok" THEN "returned" ELSE "raised",
                                         i, f.result),
                       !.log = Append(@, Event("delivered", i, c))]

\* The calls suspended in "await future" of future i go on
RECURSIVE resume_awaiting(_, _, _)
resume_awaiting(Q, i, c) ==
    IF c > Len(Q.calls) THEN Q
    ELSE resume_awaiting(IF Q.calls[c].pc = "awaiting" /\ Q.calls[c].future = i
                         THEN await_future(Q, c, i) ELSE Q, i, c + 1)

\* wrapper(), from the completion of the awaitable: the finally block puts the
\* future in the queue and the task ends with the awaitable's outcome, with no
\* suspension point in between
wrapper(Q, i, outcome) ==
    resume_awaiting([Q EXCEPT !.queue = Append(@, i),
                              !.futures[i] = outcome,
                              !.log = Append(@, Event("completed", i, 0))], i, 1)

\* get(), from "await self._queue.get()": asyncio.Queue.get suspends while the
\* queue is empty and hands out the oldest item
get(Q, c) ==
    IF Q.queue = <<>> THEN [Q EXCEPT !.calls[c] = Call("waiting", None, None)]
    ELSE await_future([Q EXCEPT !.queue = Tail(@)], c, Head(Q.queue))

QueueQ == [futures |-> q_futures, queue |-> q_queue, calls |-> q_calls, log |-> q_log]

QueueCommit(Q) ==
    /\ q_futures' = Q.futures
    /\ q_queue' = Q.queue
    /\ q_calls' = Q.calls
    /\ q_log' = Q.log
    /\ UNCHANGED <<layout, app, semvars, corevars, trig, hookvars, m_loaded, x_renders>>

QueuePut ==
    /\ layout = "queue"
    /\ Len(q_futures) < MaxPuts
    /\ QueueCommit(put(QueueQ))

\* The awaitable of future i completes
AwaitableDone(i, outcome) ==
    /\ layout = "queue"
    /\ i \in DOMAIN q_futures
    /\ q_futures[i].state = "pending"
    /\ QueueCommit(wrapper(QueueQ, i, outcome))

\* A call of get(), up to its return or its first suspension
QueueGet ==
    /\ layout = "queue"
    /\ Len(q_calls) < MaxGets
    /\ QueueCommit(get([QueueQ EXCEPT !.calls = Append(@, Call("waiting", None, None))],
                       Len(q_calls) + 1))

\* asyncio.Queue wakes a call suspended in get() when the queue has an item
QueueGetWake(c) ==
    /\ layout = "queue"
    /\ c \in DOMAIN q_calls
    /\ q_calls[c].pc = "waiting"
    /\ q_queue # <<>>
    /\ QueueCommit(get(QueueQ, c))

InitQueue ==
    /\ layout = "queue"
    /\ app = [puts |-> MaxPuts, gets |-> MaxGets]
    /\ q_futures = <<>> /\ q_queue = <<>> /\ q_calls = <<>> /\ q_log = <<>>
    /\ m_loaded = <<>> /\ x_renders = <<>>
    /\ HookOff
    /\ s_state = Empty /\ s_update_queue = <<>> /\ s_render_semaphore = 0
    /\ s_animate_queue = 0 /\ s_rendering = FALSE
    /\ s_call = [c \in Callers |-> IdleCall]
    /\ c_element_state = Empty /\ c_event_handlers = Empty /\ c_mounted = {}
    /\ c_tasks = <<>> /\ c_queue = <<>>
    /\ trig = IdleTrig

NextQueue ==
    \/ QueuePut
    \/ \E i \in 1..MaxPuts, outcome \in AwaitableOutcomes : AwaitableDone(i, outcome)
    \/ QueueGet
    \/ \E c \in 1..MaxGets : QueueGetWake(c)

SpecQueue == InitQueue /\ [][NextQueue]_vars

\* The event loop runs a call that the queue has woken
SpecQueueFair == SpecQueue /\ WF_vars(\E c \in 1..MaxGets : QueueGetWake(c))

\* The futures of the log's events of one kind, in the order of the events
RECURSIVE FuturesOf(_, _)
FuturesOf(log, ev) ==
    IF log = <<>> THEN <<>>
    ELSE (IF Head(log).ev = ev THEN <<Head(log).future>> ELSE <<>>)
            \o FuturesOf(Tail(log), ev)
Waiting == {c \in DOMAIN q_calls : q_calls[c].pc = "waiting"}
Ended == {c \in DOMAIN q_calls : q_calls[c].pc \in {"returned", "raised"}}

QueueDelivery ==
    LET delivered == FuturesOf(q_log, "delivered")
    IN  /\ IsPrefix(delivered, FuturesOf(q_log, "completed"))
        /\ \A c \in DOMAIN q_calls : q_calls[c].pc \in {"waiting", "returned", "raised"}
        /\ Cardinality(Ended) = Len(delivered)
        /\ \A c \in Ended :
              LET f == q_futures[q_calls[c].future]
              IN  /\ q_calls[c].future \in Range(delivered)
                  /\ f.state = (IF q_calls[c].pc = "returned" THEN "ok" ELSE "failed")
                  /\ q_calls[c].result = f.result
        /\ \A c \in Ended, d \in Ended : c # d => q_calls[c].future # q_calls[d].future

\* C29: get() returns only the outcome of an awaitable that has completed,
\* delivers the outcomes in the order of completion and not of put(), each one
\* once, raises from get() the exception of an awaitable that failed, and is
\* suspended while no put awaitable that is not yet delivered has completed;
\* a suspended call goes on once one has.
C29_GetDeliversCompleted ==
    /\ [](layout = "queue" => QueueDelivery)
    /\ (layout = "queue" /\ Waiting # {} /\ q_queue # <<>>) ~> (Waiting = {} \/ q_queue = <<>>)

\* The second awaitable put has completed first, with an exception, and the
\* first one after it; two calls of get() have ended, the first one raising,
\* and a third one is suspended
C29_Witness ==
    /\ layout = "queue"
    /\ FuturesOf(q_log, "completed") = <<2, 1>>
    /\ FuturesOf(q_log, "delivered") = <<2, 1>>
    /\ q_futures[2].state = "failed"
    /\ Len(q_calls) = 3
    /\ q_calls[1].pc = "raised" /\ q_calls[2].pc = "returned" /\ q_calls[3].pc = "waiting"

\* ======================================================================
\* Properties of the semaphore-based Layout: the render semaphore
\* ======================================================================
\* C30: for any sequence of update(), animate() and render() calls the value
\* of the render semaphore is 0 or 1: update() and animate() release it only
\* while it is locked, so the updates made between two passes wake render()
\* at most once.
C30_SemaphoreIsBinary ==
    layout = "sem" => s_render_semaphore \in {0, 1}

\* After a pass that rendered element 2, update() and animate() have been
\* called several times and the semaphore holds one permit
C30_Witness ==
    /\ layout = "sem"
    /\ 2 \in DOMAIN s_state
    /\ Len(s_update_queue) >= 2
    /\ s_animate_queue >= 1
    /\ s_render_semaphore = 1

\* ======================================================================
\* Loading the event handlers of a model: src/idom/core/layout.py, 193-243
\* ======================================================================
\* A Python dict is the sequence of its entries in insertion order.  An entry
\* of attributes holds a plain value, a function or an EventHandler; an entry
\* of eventHandlers holds an EventHandler; an entry of a loaded eventHandlers
\* holds the descriptor serialize() returns.  id is the identity of the
\* function or of the EventHandler, 0 for a plain value.
Entry(key, kind, id) == [key |-> key, kind |-> kind, id |-> id]
Keys(d) == {d[i].key : i \in DOMAIN d}
dict_get(d, k) == d[CHOOSE i \in DOMAIN d : d[i].key = k]
dict_set(d, e) ==
    IF e.key \in Keys(d) THEN [i \in DOMAIN d |-> IF d[i].key = e.key THEN e ELSE d[i]]
    ELSE Append(d, e)
dict_pop(d, k) == SelectSeq(d, LAMBDA x : x.key # k)
RECURSIVE dict_update(_, _)
dict_update(d, other) ==
    IF other = <<>> THEN d ELSE dict_update(dict_set(d, Head(other)), Tail(other))

\* A node of a model: a mapping that may have an attributes entry, an
\* eventHandlers entry and mapping children
Node(has_attributes, attributes, has_eventHandlers, eventHandlers, children) ==
    [has_attributes |-> has_attributes, attributes |-> attributes,
     has_eventHandlers |-> has_eventHandlers, eventHandlers |-> eventHandlers,
     children |-> children]

\* The EventHandler objects of the application are 1 and 2, its function is
\* 7; an EventHandler that the load makes has the next identity from 3 on
FirstNewHandler == 3
AttributeDicts ==
    {<<>>,
     <<Entry("style", "value", 0)>>,
     <<Entry("onClick", "function", 7)>>,
     <<Entry("onClick", "handler", 1), Entry("style", "value", 0)>>,
     <<Entry("onClick", "function", 7), Entry("onChange", "handler", 2)>>}
HandlerDicts ==
    {<<>>,
     <<Entry("onClick", "handler", 1)>>,
     <<Entry("onChange", "handler", 2)>>,
     <<Entry("onClick", "handler", 1), Entry("onChange", "handler", 1)>>}
NodesWith(children) ==
    {Node(FALSE, <<>>, FALSE, <<>>, children), Node(FALSE, <<>>, TRUE, <<>>, children)}
       \cup {Node(TRUE, a, FALSE, <<>>, children) : a \in AttributeDicts}
       \cup {Node(TRUE, a, TRUE, h, children) : a \in AttributeDicts, h \in HandlerDicts}
       \cup {Node(FALSE, <<>>, TRUE, h, children) : h \in HandlerDicts}
HandlerModels ==
    NodesWith(<<>>) \cup UNION {NodesWith(<<c>>) : c \in NodesWith(<<>>)}

\* EventHandler: the object with its id and the function added to it (0: the
\* application made it); serialize() gives the descriptor of that id
EventHandler(id, function) == [id |-> id, function |-> function]
serialize(handler) == handler.id

\* Z = [reg, record, next, made]: Layout._event_handlers, the event_handlers
\* list of the owning element's record, the identity of the next new object,
\* and the EventHandler objects by identity
\* _load_event_handlers, lines 225-234: the callable entries of attributes
RECURSIVE gather_callables(_, _)
gather_callables(G, items) ==
    IF items = <<>> THEN G
    ELSE LET e == Head(items)
             G1 == CASE e.kind = "function" ->
                          [G EXCEPT !.handlers = dict_set(@, Entry(e.key, "handler", G.next)),
                                    !.attrs = dict_pop(@, e.key),
                                    !.made = Put(@, G.next, EventHandler(G.next, e.id)),
                                    !.next = @ + 1]
                      [] e.kind = "handler" ->
                          [G EXCEPT !.handlers = dict_set(@, Entry(e.key, "handler", e.id)),
                                    !.attrs = dict_pop(@, e.key)]
                      [] OTHER -> G
         IN  gather_callables(G1, Tail(items))

\* _load_event_handlers, lines 236-241
RECURSIVE register_handlers(_, _)
register_handlers(R, items) ==
    IF items = <<>> THEN R
    ELSE LET e == Head(items)
             handler == R.made[e.id]
         IN  register_handlers(
               [R EXCEPT !.targets = dict_set(@, Entry(e.key, "descriptor", serialize(handler))),
                         !.reg = Put(@, handler.id, handler),
                         !.record = Append(@, handler.id)],
               Tail(items))

\* _load_event_handlers(model, element_id) for the clone of a node: attributes
\* is the dict the clone shares with the node
load_event_handlers(Z, model) ==
    LET handlers0 == IF model.has_eventHandlers
                     THEN dict_update(<<>>, model.eventHandlers) ELSE <<>>
        G0 == [handlers |-> handlers0, attrs |-> model.attributes,
               next |-> Z.next, made |-> Z.made]
        G  == IF model.has_attributes THEN gather_callables(G0, model.attributes) ELSE G0
        R  == register_handlers([targets |-> <<>>, reg |-> Z.reg, record |-> Z.record,
                                 made |-> G.made], G.handlers)
    IN  [Z |-> [reg |-> R.reg, record |-> R.record, next |-> G.next, made |-> G.made],
         targets |-> R.targets, attrs |-> G.attrs]

\* _load_model(model, element_id) with the event handlers: T.loaded is the
\* mapping it returns, T.model the mapping it was given as it is afterwards
RECURSIVE load_node(_, _)
RECURSIVE load_nodes(_, _)
load_nodes(Z, children) ==
    IF children = <<>> THEN [Z |-> Z, loaded |-> <<>>, model |-> <<>>]
    ELSE LET T1 == load_node(Z, Head(children))
             T2 == load_nodes(T1.Z, Tail(children))
         IN  [Z |-> T2.Z,
              loaded |-> <<[type |-> "obj", data |-> T1.loaded]>> \o T2.loaded,
              model |-> <<T1.model>> \o T2.model]
load_node(Z, model) ==
    LET C == load_nodes(Z, model.children)
        H == load_event_handlers(C.Z, model)
    IN  [Z |-> H.Z,
         loaded |-> Node(model.has_attributes, H.attrs,
                         model.has_eventHandlers \/ H.targets # <<>>,
                         IF H.targets # <<>> THEN H.targets ELSE model.eventHandlers,
                         C.loaded),
         model |-> [model EXCEPT !.attributes = H.attrs, !.children = C.model]]

ApplicationHandlers == (1 :> EventHandler(1, 0)) @@ (2 :> EventHandler(2, 0))

\* _render_model loads the model that the element's render has returned
LoadNode ==
    /\ layout = "handlers"
    /\ m_loaded = <<>>
    /\ LET T == load_node([reg |-> Empty, record |-> <<>>, next |-> FirstNewHandler,
                           made |-> ApplicationHandlers], app.model)
       IN  m_loaded' = <<[loaded |-> T.loaded, model |-> T.model, reg |-> T.Z.reg,
                          record |-> T.Z.record]>>
    /\ UNCHANGED <<layout, app, semvars, corevars, trig, hookvars, q_futures, q_queue,
                   q_calls, q_log, x_renders>>

InitHandlers ==
    /\ layout = "handlers"
    /\ app \in [model : HandlerModels]
    /\ HookOff
    /\ AuxOff
    /\ s_state = Empty /\ s_update_queue = <<>> /\ s_render_semaphore = 0
    /\ s_animate_queue = 0 /\ s_rendering = FALSE
    /\ s_call = [c \in Callers |-> IdleCall]
    /\ c_element_state = Empty /\ c_event_handlers = Empty /\ c_mounted = {}
    /\ c_tasks = <<>> /\ c_queue = <<>>
    /\ trig = IdleTrig

NextHandlers == LoadNode

SpecHandlers == InitHandlers /\ [][NextHandlers]_vars

\* The handlers a node carries: the entries of eventHandlers and the callable
\* entries of attributes
Callables(node) ==
    {node.attributes[i] : i \in {j \in DOMAIN node.attributes :
                                   node.attributes[j].kind \in {"function", "handler"}}}
Carried(node) == Range(node.eventHandlers) \cup Callables(node)

\* The loaded node has the handler of entry e under its event name, the
\* registry has it under its id, and the id is in the element's record
HandlerLoaded(e, loaded) ==
    /\ e.key \in Keys(loaded.eventHandlers)
    /\ LET id == dict_get(loaded.eventHandlers, e.key).id
       IN  /\ dict_get(loaded.eventHandlers, e.key).kind = "descriptor"
           /\ id \in DOMAIN m_loaded[1].reg
           /\ m_loaded[1].reg[id].id = id
           /\ IF e.kind = "handler" THEN id = e.id /\ m_loaded[1].reg[id].function = 0
              ELSE id >= FirstNewHandler /\ m_loaded[1].reg[id].function = e.id
           /\ id \in Range(m_loaded[1].record)

RECURSIVE HandlersLoaded(_, _)
HandlersLoaded(node, loaded) ==
    /\ \A e \in Carried(node) : HandlerLoaded(e, loaded)
    /\ \A e \in Callables(node) : e.key \notin Keys(loaded.attributes)
    /\ Len(loaded.children) = Len(node.children)
    /\ \A i \in DOMAIN node.children : HandlersLoaded(node.children[i], loaded.children[i].data)

\* C31: after the core Layout has loaded a model, for every handler under
\* eventHandlers or callable entry of attributes, in the node or in a nested
\* mapping child: the loaded node's eventHandlers maps the event name to the
\* handler's descriptor, the callable is no longer under attributes, the
\* registry maps the handler's id to the handler, and the id is in the owning
\* element's state record.
C31_HandlersAreLoaded ==
    (layout = "handlers" /\ m_loaded # <<>>) => HandlersLoaded(app.model, m_loaded[1].loaded)

\* No node has an event name both in eventHandlers and as a callable of
\* attributes
RECURSIVE DistinctEventNames(_)
DistinctEventNames(node) ==
    /\ Keys(node.eventHandlers) \cap {e.key : e \in Callables(node)} = {}
    /\ \A i \in DOMAIN node.children : DistinctEventNames(node.children[i])

\* The same for the models whose nodes name each event once
C31_HandlersAreLoadedDistinct ==
    (layout = "handlers" /\ m_loaded # <<>> /\ DistinctEventNames(app.model)) =>
        HandlersLoaded(app.model, m_loaded[1].loaded)

\* C32: loading works on a clone: the mapping that the element's render
\* returned, with its attributes mapping and its children at every depth, is
\* unchanged by _load_model and _load_event_handlers.
C32_ModelIsUnchanged ==
    (layout = "handlers" /\ m_loaded # <<>>) => m_loaded[1].model = app.model

\* ======================================================================
\* Properties of the hooks: deferred render requests and effect cleanups
\* ======================================================================
\* C33: a deferred render request is consumed when it is honoured:
\* element_did_render invokes the scheduling callback only if
\* schedule_render() was called during the render that has just completed.
C33_CallbackOnlyIfRequested ==
    [][(layout = "hook" /\ h_hook.is_rendering /\ ~h_hook'.is_rendering
          /\ Len(h_log'.calls) > Len(h_log.calls)) => h_log.deferred]_vars

\* The same for the first render of the element
C33_CallbackOnlyIfRequestedAtFirst ==
    [][(layout = "hook" /\ h_hook.is_rendering /\ ~h_hook'.is_rendering
          /\ ~h_hook.rendered_atleast_once
          /\ Len(h_log'.calls) > Len(h_log.calls)) => h_log.deferred]_vars

\* The cleanups among the effects of a list
Cleanups(effects) == {c \in Range(effects) : c.kind \in {"clean", "cleanup"}}

\* C34: an effect cleanup registered for both will_render and will_unmount is
\* invoked exactly once over the hook's lifetime: at the next
\* element_will_render, after which it is in neither list, or at
\* element_will_unmount, whichever comes first.
C34_CleanupInvokedOnce ==
    [][layout = "effect" =>
          /\ (h_render.pc = "idle" /\ h_log'.event = "will_render") =>
                \A c \in Cleanups(h_hook.event_effects.will_render) :
                    /\ c \in Range(h_log'.ran)
                    /\ c \notin Range(h_hook'.event_effects.will_render)
                    /\ c \notin Range(h_hook'.event_effects.will_unmount)
          /\ (h_render.pc = "idle" /\ h_log'.event = "will_unmount") =>
                \A c \in Cleanups(h_hook.event_effects.will_unmount) :
                    c \in Range(h_log'.ran)]_vars

\* The same for the cleanups of synchronous effects and for the cleans of
\* tasks that have not failed
C34_CleanupInvokedOnceNoFailure ==
    [][(layout = "effect" /\ \A j \in DOMAIN h_futures : h_futures[j] # "failed") =>
          /\ (h_render.pc = "idle" /\ h_log'.event = "will_render") =>
                \A c \in Cleanups(h_hook.event_effects.will_render) :
                    /\ c \in Range(h_log'.ran)
                    /\ c \notin Range(h_hook'.event_effects.will_render)
                    /\ c \notin Range(h_hook'.event_effects.will_unmount)
          /\ (h_render.pc = "idle" /\ h_log'.event = "will_unmount") =>
                \A c \in Cleanups(h_hook.event_effects.will_unmount) :
                    c \in Range(h_log'.ran)]_vars

\* The first use_effect call of a render after the first is made with the
\* args <<1>> that the effect was last run with
UnchangedArgsCall ==
    /\ layout = "effect"
    /\ app.functions[1] = "async"
    /\ h_hook.rendered_atleast_once
    /\ h_render.pc = "body" /\ Len(h_render.ret) = 0 /\ Len(h_render'.ret) = 1
    /\ h_log.event = "will_render"
    /\ h_render'.args = <<1>>
    /\ h_hook.state[1] \in DOMAIN h_log.keys
    /\ h_log.keys[h_hook.state[1]] = 1

\* C35: when a component renders again with unchanged non-empty use_effect
\* args, that render neither runs the effect again nor invokes the cleanup of
\* the effect that has run (a pending task is not cancelled): the cleanup
\* runs only when the effect is about to run again or at the unmount.
C35_UnchangedArgsKeepEffect ==
    [][UnchangedArgsCall =>
          /\ Closure("_register_effect", "async", 0) \notin Range(h_log'.ran)
          /\ Closure("clean", "", 1) \notin Range(h_log.ran)]_vars

\* The first part alone: the effect is not run again
C35_UnchangedArgsNoRerun ==
    [][UnchangedArgsCall =>
          Closure("_register_effect", "async", 0) \notin Range(h_log'.ran)]_vars

\* ======================================================================
\* Properties of the core Layout: the handler registry
\* ======================================================================
\* The handler ids in the records of the elements
RecordedHandlers(st) == UNION {Range(st[e].event_handlers) : e \in DOMAIN st}

\* C36: after any sequence of render passes of the core Layout, the key set
\* of the handler registry is the union of the handler ids in the
\* event_handlers of the existing records, also when one EventHandler is
\* used by two elements; and deleting a record does not fail on a handler id
\* that is no longer in the registry.
C36_RegistryMatchesRecords ==
    [][(layout = "core" /\ Len(c_queue') > Len(c_queue)) =>
          DOMAIN c_event_handlers' = RecordedHandlers(c_element_state')]_vars

\* The same for the passes that succeed in an application that lets update()
\* make a pass only when the one before has been delivered
C36_RegistryMatchesRecordsLonePass ==
    [][(layout = "core" /\ app.tasks = 1 /\ Len(c_queue') > Len(c_queue)
          /\ LastOutcome.kind = "ok") =>
          DOMAIN c_event_handlers' = RecordedHandlers(c_element_state')]_vars

\* ======================================================================
\* Properties of the semaphore-based Layout: the passes that return
\* ======================================================================
\* Caller c's render() returns with no entry in roots
ReturnsEmpty(c) ==
    /\ s_call[c].pc # "done"
    /\ s_call'[c].pc = "done" /\ s_call'[c].result = "ok"
    /\ s_call'[c].roots = <<>>

\* C37: every render() of the semaphore-based Layout that returns has rendered
\* a queued update or has run an animation callback (it comes from the await
\* of the callbacks), whenever update() and animate() are called, also from
\* an animation callback the pass is awaiting.
C37_PassHasWork ==
    [][\A c \in Callers :
          (layout = "sem" /\ ReturnsEmpty(c)) => s_call[c].pc = "gather"]_vars

\* ======================================================================
\* Properties of the semaphore-based Layout: updates of deleted elements
\* ======================================================================
\* C38: an update queued for an element whose record has been deleted before
\* the update is processed does not make render() raise: no render() ends in
\* the KeyError of the lookup of the parent of an element that had a record
\* when the pass began, and the other queued updates are still rendered.
C38_StaleUpdateDoesNotRaise ==
    layout = "sem" =>
        \A c \in Callers :
            (s_call[c].pc = "done" /\ s_call[c].result = "KeyError")
               => s_call[c].updates[s_call[c].ui] \notin s_call[c].current

\* ======================================================================
\* Properties of the core Layout: events during a re-render
\* ======================================================================
\* Task i awaits the render of its own element, whose record it has reset
Suspended(i) ==
    /\ c_tasks[i].pc = "render"
    /\ Len(c_tasks[i].stack) = 1
    /\ c_tasks[i].stack[1].awaiting
    /\ c_tasks[i].elem \in DOMAIN c_element_state

\* C39: a trigger() on a handler of an element that stays mounted invokes the
\* handler also when it arrives while the re-render of the element is
\* suspended, after the reset of its record and before its next model is
\* loaded; events are dropped only for the handlers of removed elements.
C39_TriggerDuringRerender ==
    [][(/\ layout = "core"
        /\ trig.pc = "idle" /\ trig'.pc # "idle"
        /\ \E i \in DOMAIN c_tasks :
               Suspended(i) /\ trig'.target \in c_tasks[i].held)
       => trig'.pc = "handler"]_vars

\* The handlers an element carried are out of the registry for as long as its
\* re-render is suspended, unless another pass has registered them since
C39_ResetUnregisters ==
    [][\A i \in DOMAIN c_tasks :
          (/\ layout = "core"
           /\ c_tasks[i].pc = "created"
           /\ i \in DOMAIN c_tasks' /\ c_tasks'[i].pc = "render"
           /\ c_tasks'[i].elem = c_tasks[i].elem)
          => c_tasks'[i].held \cap DOMAIN c_event_handlers' = {}]_vars

====
